---- MODULE Spec2Model ----
(***************************************************************************)
(* Model of the kiokkyu LINE bot: the date/time resolver (lib/dateParser), *)
(* the reminder store and recurrence step (lib/db), the registration       *)
(* command (app/api/line/route.ts) and the delivery sweep                  *)
(* (app/api/cron/route.ts).                                                *)
(*                                                                         *)
(* Instants are JavaScript time values in whole SECONDS since the epoch    *)
(* (the millisecond part of a Date is always taken as 0).  An Invalid Date *)
(* (time value NaN) is the distinguished value NaN below.                  *)
(***************************************************************************)
EXTENDS Integers, Sequences, FiniteSets, TLC

VARIABLES
    now,        \* wall clock: new Date() / NOW(), seconds since the epoch
    serverTz,   \* offset of the server's local time zone, minutes east of UTC
    input,      \* the last call made to the resolver: phrases and reference
    parsed,     \* the ParsedDateTime the resolver returned for it
    reminders,  \* table reminders: the rows in insertion order
    advanced,   \* recurrence steps applied directly, with the row given
    lists,      \* table lists, each row with its list_items
    roomStates, \* the roomStates map of the webhook: room -> waiting state
    nextId,     \* the SERIAL counters of the tables
    sweep,      \* per delivery sweep: its position and the rows it read
    pushed,     \* the push messages sent by sweeps, in order
    reply,      \* the reply sent for the last webhook event
    event       \* the last step taken: the event handled or the sweep step

vars == <<now, serverTz, input, parsed, reminders, advanced, lists,
          roomStates, nextId, sweep, pushed, reply, event>>

\* the variables of the webhook and of the sweeps
sysVars == <<lists, roomStates, nextId, sweep, pushed, reply, event>>

\* the webhook and the sweeps take no part
SysUnused ==
    /\ lists = <<>>
    /\ roomStates = <<>>
    /\ nextId = 0
    /\ sweep = <<>>
    /\ pushed = <<>>
    /\ reply = <<>>
    /\ event = <<>>

-----------------------------------------------------------------------------
(* ECMAScript Date arithmetic, as used by the Date methods the code calls. *)

\* the element of a one-element set; {e(v) : v \in {x}} is e with x computed
\* once and named v, as a const or let of the code
The(S) == CHOOSE r \in S : TRUE

NaN == -1

SecPerDay == 86400

\* TimeClip: a time value beyond 8.64e15 ms (1e8 days) is NaN
MaxDay == 100000000

\* days since 1970-01-01 of the civil date y-m-d (m in 1..12, any integer d)
DaysFromCivil(y, m, d) ==
    LET yy  == IF m <= 2 THEN y - 1 ELSE y
        era == yy \div 400
        yoe == yy - era * 400
        mp  == (m + 9) % 12
        doy == (153 * mp + 2) \div 5 + d - 1
        doe == yoe * 365 + yoe \div 4 - yoe \div 100 + doy
    IN  era * 146097 + doe - 719468

\* the civil date of day number z
CivilFromDays(z) ==
    The({
    LET era == zz \div 146097
        doe == zz - era * 146097
        yoe == (doe - doe \div 1460 + doe \div 36524 - doe \div 146096) \div 365
        doy == doe - (365 * yoe + yoe \div 4 - yoe \div 100)
        mp  == (5 * doy + 2) \div 153
        d   == doy - (153 * mp + 2) \div 5 + 1
        m   == IF mp < 10 THEN mp + 3 ELSE mp - 9
        y   == yoe + era * 400 + (IF m <= 2 THEN 1 ELSE 0)
    IN  [y |-> y, m |-> m, d |-> d]
    : zz \in {z + 719468}})

\* the calendar fields of instant t seen at offset tz (minutes east of UTC);
\* mo is the 0-based month as getMonth() returns it
Fields(t, tz) ==
    The({
        LET c   == CivilFromDays(loc \div SecPerDay)
            sod == loc % SecPerDay
        IN  [y |-> c.y, mo |-> c.m - 1, d |-> c.d,
             h |-> sod \div 3600, mi |-> (sod % 3600) \div 60, s |-> sod % 60]
        : loc \in {t + tz * 60}})

\* MakeDay/MakeTime/MakeDate/UTC/TimeClip: the instant whose fields at offset
\* tz are the given ones; month, day, hour and minute outside their ranges
\* carry over, and a result out of the Date range is NaN
MakeLocal(y, mo, d, h, mi, s, tz) ==
    LET ym   == y + mo \div 12
        day  == DaysFromCivil(ym, (mo % 12) + 1, 1) + d - 1
        secs == h * 3600 + mi * 60 + s - tz * 60
        dd   == day + secs \div SecPerDay
    IN  IF dd >= MaxDay \/ dd < -MaxDay THEN NaN
        ELSE day * SecPerDay + secs

getDate(t, tz) == Fields(t, tz).d
getMonth(t, tz) == Fields(t, tz).mo
getFullYear(t, tz) == Fields(t, tz).y

\* the Date setters: on an Invalid Date they leave it invalid
setDate(t, d, tz) ==
    The({IF tv = NaN THEN NaN
         ELSE The({MakeLocal(f.y, f.mo, dv, f.h, f.mi, f.s, tz) :
                      f \in {Fields(tv, tz)}})
         : tv \in {t}, dv \in {d}})

setMonth(t, mo, tz) ==
    The({IF tv = NaN THEN NaN
         ELSE The({MakeLocal(f.y, mv, f.d, f.h, f.mi, f.s, tz) :
                      f \in {Fields(tv, tz)}})
         : tv \in {t}, mv \in {mo}})

setFullYear(t, y, tz) ==
    The({IF tv = NaN THEN NaN
         ELSE The({MakeLocal(yv, f.mo, f.d, f.h, f.mi, f.s, tz) :
                      f \in {Fields(tv, tz)}})
         : tv \in {t}, yv \in {y}})

\* setHours(hour, minute, 0, 0)
setHours(t, h, mi, tz) ==
    The({IF tv = NaN THEN NaN
         ELSE The({MakeLocal(f.y, f.mo, f.d, h, mi, 0, tz) :
                      f \in {Fields(tv, tz)}})
         : tv \in {t}})

\* new Date(year, month, day): local midnight; years 0..99 mean 1900..1999
NewDate(y, mo, d, tz) ==
    MakeLocal(IF y >= 0 /\ y <= 99 THEN 1900 + y ELSE y, mo, d, 0, 0, 0, tz)

\* relational comparison of two Dates: false when either is Invalid
DateLT(a, b) == a # NaN /\ b # NaN /\ a < b
DateLE(a, b) == a # NaN /\ b # NaN /\ a <= b

\* new Date(d.getTime() + delta)
PlusSeconds(t, delta) == IF t = NaN THEN NaN ELSE t + delta

-----------------------------------------------------------------------------
(* lib/dateParser.ts: parseDateTime.                                       *)
(* A phrase is the token the regular expressions see: its kind is the      *)
(* branch of the if-chain that matches it (the two spellings of a literal  *)
(* are two kinds), and y, m, d / h, mi are the parseInt of its digit       *)
(* groups.                                                                 *)

JstOffsetMin == 540

DateLiterals ==
    {"kyou_kanji", "kyou_kana", "ashita_kanji", "ashita_kana",
     "asatte_kanji", "asatte_kana", "raishuu_kanji", "raishuu_kana",
     "saraishuu_kanji", "saraishuu_kana"}

TimeLiterals ==
    {"asa_kanji", "asa_kana", "hiru_kanji", "hiru_kana", "ohiru_kanji",
     "ohiru_kana", "gogo_kanji", "gogo_kana", "yuugata_kanji",
     "yuugata_kana", "yoru_kanji", "yoru_kana", "shinya_kanji",
     "shinya_kana"}

DatePhrase(k, y, m, d) == [k |-> k, y |-> y, m |-> m, d |-> d]
TimePhrase(k, h, mi) == [k |-> k, h |-> h, mi |-> mi]

\* the date branch with the phonetic spelling of 来週 left out of the chain
ResolveDate_KanjiOnly(dp, jstNow, tz) ==
    CASE dp.k \in {"kyou_kanji", "kyou_kana"} -> jstNow
      [] dp.k \in {"ashita_kanji", "ashita_kana"} ->
            setDate(jstNow, getDate(jstNow, tz) + 1, tz)
      [] dp.k \in {"asatte_kanji", "asatte_kana"} ->
            setDate(jstNow, getDate(jstNow, tz) + 2, tz)
      [] dp.k \in {"raishuu_kanji"} ->
            setDate(jstNow, getDate(jstNow, tz) + 7, tz)
      [] dp.k \in {"saraishuu_kanji", "saraishuu_kana"} ->
            setDate(jstNow, getDate(jstNow, tz) + 14, tz)
      [] OTHER -> jstNow

\* the date branch of parseDateTime: jstNow is the reference shifted so that
\* its local fields are the JST civil fields
ResolveDate(dp, jstNow, tz) ==
    CASE dp.k \in {"kyou_kanji", "kyou_kana"} -> jstNow
      [] dp.k \in {"ashita_kanji", "ashita_kana"} ->
            setDate(jstNow, getDate(jstNow, tz) + 1, tz)
      [] dp.k \in {"asatte_kanji", "asatte_kana"} ->
            setDate(jstNow, getDate(jstNow, tz) + 2, tz)
      [] dp.k \in {"raishuu_kanji", "raishuu_kana"} ->
            setDate(jstNow, getDate(jstNow, tz) + 7, tz)
      [] dp.k \in {"saraishuu_kanji", "saraishuu_kana"} ->
            setDate(jstNow, getDate(jstNow, tz) + 14, tz)
      [] dp.k = "n_nichi_go" ->
            setDate(jstNow, getDate(jstNow, tz) + dp.d, tz)
      [] dp.k = "n_nichi" ->
            LET t1 == setDate(jstNow, dp.d, tz)
            IN  IF DateLT(t1, jstNow)
                THEN setMonth(t1, getMonth(t1, tz) + 1, tz)
                ELSE t1
      [] dp.k = "m_gatsu_d_nichi" ->
            LET t1 == setMonth(jstNow, dp.m - 1, tz)
                t2 == setDate(t1, dp.d, tz)
            IN  IF DateLT(t2, jstNow)
                THEN setFullYear(t2, getFullYear(t2, tz) + 1, tz)
                ELSE t2
      [] dp.k = "y_nen_m_gatsu_d_nichi" ->
            NewDate(dp.y, dp.m - 1, dp.d, tz)
      [] OTHER -> jstNow

\* the time branch: the civil hour and minute of the phrase
ResolveTime(tp) ==
    CASE tp.k \in {"asa_kanji", "asa_kana"} -> [h |-> 9, mi |-> 0]
      [] tp.k \in {"hiru_kanji", "hiru_kana", "ohiru_kanji", "ohiru_kana"} ->
            [h |-> 12, mi |-> 0]
      [] tp.k \in {"gogo_kanji", "gogo_kana"} -> [h |-> 15, mi |-> 0]
      [] tp.k \in {"yuugata_kanji", "yuugata_kana"} -> [h |-> 18, mi |-> 0]
      [] tp.k \in {"yoru_kanji", "yoru_kana"} -> [h |-> 18, mi |-> 0]
      [] tp.k \in {"shinya_kanji", "shinya_kana"} -> [h |-> 22, mi |-> 0]
      [] tp.k = "h_ji" -> [h |-> tp.h, mi |-> 0]
      [] tp.k \in {"h_ji_m_fun", "h_colon_m"} -> [h |-> tp.h, mi |-> tp.mi]
      [] OTHER -> [h |-> 9, mi |-> 0]

PastError == "past"

\* the past-date test: utcDate <= now
IsPastOrNow(utcDate, ref) == DateLE(utcDate, ref)

\* jstOffset + localOffset, where getTimezoneOffset() is minus the offset east
OffsetDiff_IgnoreLocal(tz) == JstOffsetMin

OffsetDiff(tz) == JstOffsetMin + (0 - tz)

parseDateTime(dp, tp, ref, tz) ==
    LET offsetDiff == OffsetDiff(tz)
        jstNow     == ref + offsetDiff * 60
        hm         == ResolveTime(tp)
    IN  The({IF IsPastOrNow(utcDate, ref)
             THEN [date |-> utcDate, success |-> FALSE, error |-> PastError]
             ELSE [date |-> utcDate, success |-> TRUE, error |-> "none"]
             : utcDate \in
                 {PlusSeconds(setHours(ResolveDate(dp, jstNow, tz),
                                       hm.h, hm.mi, tz),
                              0 - offsetDiff * 60)}})

\* the display with the UTC fields read without the shift to UTC+9
formatDateTime_NoShift(date, cur, tz) ==
    IF date = NaN
    THEN <<"NaN", "nen", "NaN", "gatsu", "NaN", "nichi", " ", "NaN", "ji",
           "NaN", "fun">>
    ELSE The({
        (IF jst.y = getFullYear(cur, tz) THEN <<>>
                                          ELSE <<ToString(jst.y), "nen">>)
        \o <<ToString(jst.mo + 1), "gatsu", ToString(jst.d), "nichi", " ",
             ToString(jst.h), "ji">>
        \o (IF jst.mi = 0 THEN <<>> ELSE <<ToString(jst.mi), "fun">>)
        : jst \in {Fields(date, 0)}})

\* formatDateTime(date) called at instant cur: the UTC fields of date + 9 h;
\* the year is left out when it is the server-local year of cur, the minute
\* when it is 0; the text is year 年 month 月 day 日, a space, hour 時
\* minute 分 (trim() finds no blank at either end)
formatDateTime(date, cur, tz) ==
    IF date = NaN
    THEN <<"NaN", "nen", "NaN", "gatsu", "NaN", "nichi", " ", "NaN", "ji",
           "NaN", "fun">>
    ELSE The({
        (IF jst.y = getFullYear(cur, tz) THEN <<>>
                                          ELSE <<ToString(jst.y), "nen">>)
        \o <<ToString(jst.mo + 1), "gatsu", ToString(jst.d), "nichi", " ",
             ToString(jst.h), "ji">>
        \o (IF jst.mi = 0 THEN <<>> ELSE <<ToString(jst.mi), "fun">>)
        : jst \in {Fields(date + 9 * 3600, 0)}})

-----------------------------------------------------------------------------
(* The resolver applied to bounded inputs.                                 *)

\* the instant at which the JST civil clock shows y-m-d h:mi:s
Jst(y, m, d, h, mi, s) == MakeLocal(y, m - 1, d, h, mi, s, JstOffsetMin)

\* the JST civil fields of an instant
Civil(t) == Fields(t, JstOffsetMin)

RefInstants ==
    {Jst(2025, 1, 31, 10, 0, 30), Jst(2025, 1, 31, 9, 0, 0),
     Jst(2025, 3, 20, 23, 59, 59), Jst(2025, 12, 28, 8, 30, 0),
     Jst(2024, 2, 29, 12, 0, 0), Jst(2025, 6, 10, 9, 0, 0)}

ServerTzs == {0, 540}

\* (MaxDay days ahead is past the last representable Date)
DatePhrases ==
    {DatePhrase(k, 0, 0, 0) : k \in DateLiterals \cup {"other"}}
    \cup {DatePhrase("n_nichi_go", 0, 0, n) : n \in {0, 1, 3, MaxDay}}
    \cup {DatePhrase("n_nichi", 0, 0, n) : n \in {1, 10, 15, 28, 29, 30, 31}}
    \cup {DatePhrase("m_gatsu_d_nichi", 0, m, d) :
             m \in {1, 2, 4, 6, 12}, d \in {1, 15, 25, 28, 30}}
    \cup {DatePhrase("y_nen_m_gatsu_d_nichi", y, md[1], md[2]) :
             y \in {2025, 2026},
             md \in {<<12, 25>>, <<2, 28>>, <<1, 31>>, <<6, 10>>}}

TimePhrases ==
    {TimePhrase(k, 0, 0) : k \in TimeLiterals \cup {"other", "absent"}}
    \cup {TimePhrase("h_ji", h, 0) : h \in {0, 9, 15, 23, 25}}
    \cup {TimePhrase("h_ji_m_fun", 15, 30), TimePhrase("h_colon_m", 9, 5),
          TimePhrase("h_colon_m", 23, 75)}

NotCalled == [date |-> NaN, success |-> FALSE, error |-> "not called"]

\* the phrases and the reference instant are drawn here; Resolve applies the
\* resolver to them
InitResolve ==
    /\ now \in RefInstants
    /\ serverTz \in ServerTzs
    /\ input \in [dateStr : DatePhrases, timeStr : TimePhrases, ref : {now}]
    /\ parsed = NotCalled
    /\ reminders = <<>>
    /\ advanced = <<>>
    /\ SysUnused

\* the call parseDateTime(dateStr, timeStr) made at instant ref
Resolve ==
    /\ parsed = NotCalled
    /\ parsed' = parseDateTime(input.dateStr, input.timeStr, input.ref, serverTz)
    /\ UNCHANGED <<now, serverTz, input, reminders, advanced, sysVars>>

\* the resolved instant shown to the user, as in the confirmation of a
\* registration: formatDateTime(parsed.date)
Format ==
    /\ parsed # NotCalled
    /\ parsed.success
    /\ reply = <<>>
    /\ reply' = formatDateTime(parsed.date, now, serverTz)
    /\ UNCHANGED <<now, serverTz, input, parsed, reminders, advanced, lists,
                   roomStates, nextId, sweep, pushed, event>>

NextResolve == Resolve \/ Format

SpecResolve == InitResolve /\ [][NextResolve]_vars

-----------------------------------------------------------------------------
(* lib/db.ts: the reminders table and the recurrence step.                 *)
(* A row is [id, room_id, reminder_name, message, remind_at, status,       *)
(* repeat_pattern, updated_at, cleanup_warning_at]; repeat_pattern "null"  *)
(* is SQL NULL, and so is the timestamp NULL.                              *)

\* cleanup_warning_at of a row never warned
NULL == -1

\* UPDATE reminders SET status = 'completed', updated_at = CURRENT_TIMESTAMP
\* WHERE id = $1
completeReminder_KeepStatus(rs, reminderId, t) ==
    [i \in DOMAIN rs |->
        IF rs[i].id = reminderId
        THEN [rs[i] EXCEPT !.updated_at = t]
        ELSE rs[i]]

completeReminder(rs, reminderId, t) ==
    [i \in DOMAIN rs |->
        IF rs[i].id = reminderId
        THEN [rs[i] EXCEPT !.status = "completed", !.updated_at = t]
        ELSE rs[i]]

\* the switch of rescheduleRepeatingReminder: nextRemindAt for a cadence that
\* repeats, computed on the server's local calendar
NextRemindAt_WeeklySix(remindAt, pattern, tz) ==
    CASE pattern = "daily" -> setDate(remindAt, getDate(remindAt, tz) + 1, tz)
      [] pattern = "weekly" -> setDate(remindAt, getDate(remindAt, tz) + 6, tz)
      [] pattern = "monthly" ->
            setMonth(remindAt, getMonth(remindAt, tz) + 1, tz)

NextRemindAt(remindAt, pattern, tz) ==
    CASE pattern = "daily" -> setDate(remindAt, getDate(remindAt, tz) + 1, tz)
      [] pattern = "weekly" -> setDate(remindAt, getDate(remindAt, tz) + 7, tz)
      [] pattern = "monthly" ->
            setMonth(remindAt, getMonth(remindAt, tz) + 1, tz)

\* rescheduleRepeatingReminder(reminder): reminder is the row as the caller
\* read it; the UPDATE finds the stored row by id
rescheduleRepeatingReminder(rs, reminder, tz, t) ==
    IF reminder.repeat_pattern \in {"daily", "weekly", "monthly"}
    THEN [i \in DOMAIN rs |->
            IF rs[i].id = reminder.id
            THEN [rs[i] EXCEPT
                    !.remind_at = NextRemindAt(reminder.remind_at,
                                               reminder.repeat_pattern, tz),
                    !.status = "active"]
            ELSE rs[i]]
    ELSE completeReminder(rs, reminder.id, t)

-----------------------------------------------------------------------------
(* The recurrence step applied to bounded inputs.                          *)

MaxAdvance == 12

FireAts ==
    {Jst(2025, 2, 1, 8, 0, 0), Jst(2025, 1, 15, 9, 0, 0),
     Jst(2025, 3, 10, 22, 30, 45), Jst(2024, 12, 31, 23, 59, 59),
     Jst(2025, 1, 28, 12, 0, 0), Jst(2024, 2, 29, 7, 15, 0),
     Jst(2025, 1, 31, 18, 0, 0)}

Patterns == {"null", "daily", "weekly", "monthly"}

NoText == <<>>

Row(id, room, name, msg, at, st, pat, upd) ==
    [id |-> id, room_id |-> room, reminder_name |-> name, message |-> msg,
     remind_at |-> at, status |-> st, repeat_pattern |-> pat,
     updated_at |-> upd, cleanup_warning_at |-> NULL]

AdvanceNow == Jst(2025, 4, 1, 0, 0, 0)

\* one stored reminder of any cadence (also one the switch does not know)
InitAdvance ==
    /\ now = AdvanceNow
    /\ serverTz \in ServerTzs
    /\ input = 0
    /\ parsed = NotCalled
    /\ \E at \in FireAts, pat \in Patterns \cup {"yearly"},
          st \in {"active", "pending"} :
          /\ reminders = <<Row(1, "A", NoText, NoText, at, st, pat, at - 60)>>
          /\ advanced = [n |-> 0, start |-> reminders[1], prev |-> reminders[1]]
    /\ SysUnused

\* rescheduleRepeatingReminder called with the row as stored
Advance ==
    /\ advanced.n < MaxAdvance
    /\ reminders' = rescheduleRepeatingReminder(reminders, reminders[1],
                                                serverTz, now)
    /\ advanced' = [advanced EXCEPT !.n = @ + 1, !.prev = reminders[1]]
    /\ UNCHANGED <<now, serverTz, input, parsed, sysVars>>

NextAdvance == Advance

SpecAdvance == InitAdvance /\ [][NextAdvance]_vars

-----------------------------------------------------------------------------
(* Texts.  A text is a sequence of characters, each written as a string:   *)
(* "mai" "nichi" "shuu" "tsuki" are the kanji 毎 日 週 月, "ma" "i" "ni"   *)
(* "chi" "shi" "yu" "u" "tsu" "ki" the kana of the phonetic spellings,     *)
(* " " a space and anything else an ordinary character.                    *)

KwMainichi == <<"mai", "nichi">>
KwMaishuu == <<"mai", "shuu">>
KwMaitsuki == <<"mai", "tsuki">>
KwMainichiKana == <<"ma", "i", "ni", "chi">>
KwMaishuuKana == <<"ma", "i", "shi", "yu", "u">>
KwMaitsukiKana == <<"ma", "i", "tsu", "ki">>

\* the alternatives of /毎日|毎週|毎月|まいにち|まいしゅう|まいつき/g in order
CadenceKeywords ==
    <<KwMainichi, KwMaishuu, KwMaitsuki,
      KwMainichiKana, KwMaishuuKana, KwMaitsukiKana>>

MatchesAt(text, i, kw) ==
    /\ i + Len(kw) - 1 <= Len(text)
    /\ SubSeq(text, i, i + Len(kw) - 1) = kw

\* String.prototype.includes
includes(text, kw) == \E i \in 1..Len(text) : MatchesAt(text, i, kw)

\* the chain with the weekly test ahead of the daily one
parseRepeatPattern_WeeklyFirst(text) ==
    IF includes(text, KwMaishuu) \/ includes(text, KwMaishuuKana)
    THEN "weekly"
    ELSE IF includes(text, KwMainichi) \/ includes(text, KwMainichiKana)
    THEN "daily"
    ELSE IF includes(text, KwMaitsuki) \/ includes(text, KwMaitsukiKana)
    THEN "monthly"
    ELSE "null"

parseRepeatPattern(text) ==
    IF includes(text, KwMainichi) \/ includes(text, KwMainichiKana)
    THEN "daily"
    ELSE IF includes(text, KwMaishuu) \/ includes(text, KwMaishuuKana)
    THEN "weekly"
    ELSE IF includes(text, KwMaitsuki) \/ includes(text, KwMaitsukiKana)
    THEN "monthly"
    ELSE "null"

\* text.replace(/.../g, ""): one pass from the left, the matches removed
RECURSIVE replaceKeywords(_, _)
replaceKeywords(text, i) ==
    IF i > Len(text) THEN <<>>
    ELSE LET hits == {j \in 1..Len(CadenceKeywords) :
                         MatchesAt(text, i, CadenceKeywords[j])}
         IN  IF hits = {}
             THEN <<text[i]>> \o replaceKeywords(text, i + 1)
             ELSE LET j == CHOOSE h \in hits : \A g \in hits : h <= g
                  IN  replaceKeywords(text, i + Len(CadenceKeywords[j]))

RECURSIVE trimStart(_)
trimStart(text) ==
    IF text # <<>> /\ Head(text) = " " THEN trimStart(Tail(text)) ELSE text

RECURSIVE trimEnd(_)
trimEnd(text) ==
    IF text # <<>> /\ text[Len(text)] = " "
    THEN trimEnd(SubSeq(text, 1, Len(text) - 1))
    ELSE text

trim(text) == trimEnd(trimStart(text))

\* substring(0, 20)
substring20(text) ==
    IF Len(text) <= 20 THEN text ELSE SubSeq(text, 1, 20)

(* A message is the trimmed text of a text event: a sequence of lines, each *)
(* a sequence of tokens separated by blanks.  A token is a record with its  *)
(* kind k: a command word ("oboeru" おぼえるくん, "oshiete" おしえてくん,   *)
(* "ichiran" 一覧, "rireki" 履歴, "sakujo" 削除, "tsuika" 追加, "bye"),     *)
(* a date or time phrase, or "text" with its characters.                    *)

Word(k) == [k |-> k]
TextTok(chars) == [k |-> "text", chars |-> chars]

\* the characters of a token
TokText(tok) == IF tok.k = "text" THEN tok.chars ELSE <<tok.k>>

\* parts.join(" ")
RECURSIVE join(_)
join(toks) ==
    IF toks = <<>> THEN <<>>
    ELSE IF Len(toks) = 1 THEN TokText(toks[1])
    ELSE TokText(toks[1]) \o <<" ">> \o join(Tail(toks))

\* message.split(/\s+/): the tokens of all lines
RECURSIVE split(_)
split(msg) == IF msg = <<>> THEN <<>> ELSE Head(msg) \o split(Tail(msg))

\* message.split("\n").filter((item) => item.trim()), each item trimmed as
\* addItemsToList stores it
RECURSIVE splitItems(_)
splitItems(msg) ==
    IF msg = <<>> THEN <<>>
    ELSE IF Head(msg) = <<>> THEN splitItems(Tail(msg))
    ELSE <<join(Head(msg))>> \o splitItems(Tail(msg))

-----------------------------------------------------------------------------
(* Cadence extraction applied to bounded texts.                            *)

\* a text is made of at most MaxPieces pieces: keywords, parts of keywords,
\* an ordinary character, a space
MaxPieces == 3

Pieces ==
    {KwMainichi, KwMaishuu, KwMaitsuki, KwMainichiKana, KwMaishuuKana,
     KwMaitsukiKana, <<"x">>, <<" ">>, <<"mai">>, <<"nichi">>, <<"ma", "i">>}

RECURSIVE concat(_)
concat(ps) == IF ps = <<>> THEN <<>> ELSE Head(ps) \o concat(Tail(ps))

Texts ==
    {concat(ps) : ps \in UNION {[1..n -> Pieces] : n \in 0..MaxPieces}}

NotExtracted == [pattern |-> "not called"]

InitCadence ==
    /\ now = 0
    /\ serverTz = 0
    /\ input \in Texts
    /\ parsed = NotExtracted
    /\ reminders = <<>>
    /\ advanced = <<>>
    /\ SysUnused

\* parseRepeatPattern(fullMessage)
ExtractCadence ==
    /\ parsed = NotExtracted
    /\ parsed' = [pattern |-> parseRepeatPattern(input)]
    /\ UNCHANGED <<now, serverTz, input, reminders, advanced, sysVars>>

NextCadence == ExtractCadence

SpecCadence == InitCadence /\ [][NextCadence]_vars

-----------------------------------------------------------------------------
(* lib/numberParser.ts: the numbers of a reply such as "1, 3".  A string is *)
(* a sequence of characters; "nl" is the line feed.                         *)

\* the class [,.\n\s]
Separators == {",", ".", "nl", " "}

DigitChars == {"0", "1", "2", "3", "4", "5", "6", "7", "8", "9"}

DigitValue(c) == CHOOSE n \in 0..9 : ToString(n) = c

\* input.replace(/[,.\n\s]+/g, " "): every maximal run of separators
\* becomes one space
RECURSIVE replaceSeparators(_, _)
replaceSeparators(text, i) ==
    IF i > Len(text) THEN <<>>
    ELSE IF text[i] \notin Separators
    THEN <<text[i]>> \o replaceSeparators(text, i + 1)
    ELSE IF i > 1 /\ text[i - 1] \in Separators
    THEN replaceSeparators(text, i + 1)
    ELSE <<" ">> \o replaceSeparators(text, i + 1)

\* cleaned.split(" "): the pieces between the spaces, empty ones included
RECURSIVE splitOnSpace(_)
splitOnSpace(text) ==
    IF \A i \in 1..Len(text) : text[i] # " " THEN <<text>>
    ELSE LET i == CHOOSE j \in 1..Len(text) :
                      text[j] = " " /\ \A k \in 1..(j - 1) : text[k] # " "
         IN  <<SubSeq(text, 1, i - 1)>>
             \o splitOnSpace(SubSeq(text, i + 1, Len(text)))

\* str.replace(/[^0-9]/g, "")
digitsOnly(str) == SelectSeq(str, LAMBDA c : c \in DigitChars)

\* parseInt of a string of digits; NaN for the empty string
RECURSIVE parseInt(_)
parseInt(num) ==
    IF num = <<>> THEN NaN
    ELSE IF Len(num) = 1 THEN DigitValue(num[1])
    ELSE parseInt(SubSeq(num, 1, Len(num) - 1)) * 10
         + DigitValue(num[Len(num)])

\* [...new Set(numbers)]: the first occurrence of each value, in order
newSet(numbers) ==
    SelectSeq([i \in 1..Len(numbers) |->
                  IF \E j \in 1..(i - 1) : numbers[j] = numbers[i]
                  THEN NaN ELSE numbers[i]],
              LAMBDA n : n # NaN)

\* .sort((a, b) => a - b): the same values in ascending order
RECURSIVE sort(_)
sort(numbers) ==
    IF numbers = <<>> THEN <<>>
    ELSE LET i == CHOOSE j \in 1..Len(numbers) :
                      \A k \in 1..Len(numbers) :
                          /\ numbers[j] <= numbers[k]
                          /\ (numbers[j] = numbers[k] => j <= k)
         IN  <<numbers[i]>>
             \o sort(SubSeq(numbers, 1, i - 1)
                     \o SubSeq(numbers, i + 1, Len(numbers)))

\* the parser without the pass through Set
parseNumbers_NoSet(text) ==
    LET cleaned == trim(replaceSeparators(text, 1))
        pieces  == splitOnSpace(cleaned)
        mapped  == [i \in 1..Len(pieces) |-> parseInt(digitsOnly(pieces[i]))]
        numbers == SelectSeq(mapped, LAMBDA num : num # NaN /\ num > 0)
    IN  sort(numbers)

parseNumbers(text) ==
    LET cleaned == trim(replaceSeparators(text, 1))
        pieces  == splitOnSpace(cleaned)
        mapped  == [i \in 1..Len(pieces) |-> parseInt(digitsOnly(pieces[i]))]
        numbers == SelectSeq(mapped, LAMBDA num : num # NaN /\ num > 0)
    IN  sort(newSet(numbers))

-----------------------------------------------------------------------------
(* The number parser applied to bounded strings.                           *)

MaxChars == 5

NumberChars == {"0", "1", "2", ",", "nl", " ", "a"}

NumberTexts == UNION {[1..n -> NumberChars] : n \in 0..MaxChars}

NotParsed == [called |-> FALSE, numbers |-> <<>>]

InitNumbers ==
    /\ now = 0
    /\ serverTz = 0
    /\ input \in NumberTexts
    /\ parsed = NotParsed
    /\ reminders = <<>>
    /\ advanced = <<>>
    /\ SysUnused

\* parseNumbers(input)
ParseNumbers ==
    /\ parsed = NotParsed
    /\ parsed' = [called |-> TRUE, numbers |-> parseNumbers(input)]
    /\ UNCHANGED <<now, serverTz, input, reminders, advanced, sysVars>>

NextNumbers == ParseNumbers

SpecNumbers == InitNumbers /\ [][NextNumbers]_vars

-----------------------------------------------------------------------------
(* lib/db.ts: the other statements on reminders, and the lists.            *)

\* INSERT INTO reminders ... 'active'
createReminder(rs, id, roomId, reminderName, message, remindAt, pattern, t) ==
    Append(rs, Row(id, roomId, reminderName, message, remindAt, "active",
                   pattern, t))

\* DELETE FROM reminders WHERE room_id = $1 AND reminder_name = $2
deleteReminder(rs, roomId, reminderName) ==
    LET Keep(r) == ~(r.room_id = roomId /\ r.reminder_name = reminderName)
    IN  SelectSeq(rs, Keep)

\* WHERE status = 'active' AND remind_at <= NOW()
IsDue(r, t) == r.status = "active" /\ r.remind_at <= t

\* the due rows without the ORDER BY: in any order
getDueReminders_Unordered(rs, t) ==
    LET due == {i \in DOMAIN rs : IsDue(rs[i], t)}
        n   == Cardinality(due)
    IN  {[k \in 1..n |-> rs[f[k]]] :
            f \in {g \in [1..n -> due] :
                     \A a, b \in 1..n : a # b => g[a] # g[b]}}

\* getDueReminders: the due rows ORDER BY remind_at ASC; rows with the same
\* remind_at come in any order
getDueReminders(rs, t) ==
    LET due == {i \in DOMAIN rs : IsDue(rs[i], t)}
        n   == Cardinality(due)
    IN  {[k \in 1..n |-> rs[f[k]]] :
            f \in {g \in [1..n -> due] :
                     /\ \A a, b \in 1..n : a # b => g[a] # g[b]
                     /\ \A a, b \in 1..n :
                           a < b => rs[g[a]].remind_at <= rs[g[b]].remind_at}}

\* UPDATE reminders SET remind_at = NOW() + INTERVAL '1 minute' * $2,
\* status = 'active', updated_at = CURRENT_TIMESTAMP WHERE id = $1
snoozeReminder(rs, reminderId, minutesLater, t) ==
    [i \in DOMAIN rs |->
        IF rs[i].id = reminderId
        THEN [rs[i] EXCEPT !.remind_at = t + minutesLater * 60,
                           !.status = "active", !.updated_at = t]
        ELSE rs[i]]

ListRow(id, userId, listName, items, t) ==
    [id |-> id, user_id |-> userId, list_name |-> listName, items |-> items,
     last_accessed_at |-> t, cleanup_warning_at |-> NULL]

\* SELECT * FROM lists WHERE user_id = $1 AND list_name = $2: the index of
\* rows[0], or 0
findList(ls, userId, listName) ==
    LET hits == {i \in DOMAIN ls :
                    ls[i].user_id = userId /\ ls[i].list_name = listName}
    IN  IF hits = {} THEN 0 ELSE CHOOSE i \in hits : \A j \in hits : i <= j

updateListAccessTime(ls, listId, t) ==
    [i \in DOMAIN ls |->
        IF ls[i].id = listId THEN [ls[i] EXCEPT !.last_accessed_at = t]
        ELSE ls[i]]

\* the INSERT made without the SELECT before it
createList_AlwaysInsert(ls, id, userId, listName, t) ==
    Append(ls, ListRow(id, userId, listName, <<>>, t))

createList(ls, id, userId, listName, t) ==
    IF findList(ls, userId, listName) # 0 THEN ls
    ELSE Append(ls, ListRow(id, userId, listName, <<>>, t))

\* getListWithItems leaves the list's access time updated
getListWithItems(ls, userId, listName, t) ==
    IF findList(ls, userId, listName) = 0 THEN ls
    ELSE updateListAccessTime(ls, ls[findList(ls, userId, listName)].id, t)

\* one INSERT INTO list_items per item, ids from firstId on
addItemsToList(ls, listId, items, firstId, t) ==
    [i \in DOMAIN ls |->
        IF ls[i].id = listId
        THEN [ls[i] EXCEPT
                !.items = @ \o [k \in 1..Len(items) |->
                                  [id |-> firstId + k - 1,
                                   item_text |-> items[k]]],
                !.last_accessed_at = t]
        ELSE ls[i]]

\* the DELETE without the condition on user_id
deleteList_AnyRoom(ls, roomId, listName) ==
    LET Keep(l) == ~(l.list_name = listName)
    IN  SelectSeq(ls, Keep)

\* DELETE FROM lists WHERE user_id = $1 AND list_name = $2
deleteList(ls, roomId, listName) ==
    LET Keep(l) == ~(l.user_id = roomId /\ l.list_name = listName)
    IN  SelectSeq(ls, Keep)

\* lower case, as ILIKE folds it
lower(c) == CASE c = "A" -> "a" [] c = "B" -> "b" [] OTHER -> c

\* text LIKE pattern: % stands for any run of characters, _ for any one
\* character (no escape character occurs in the texts)
RECURSIVE like(_, _)
like(text, pattern) ==
    IF pattern = <<>> THEN text = <<>>
    ELSE IF Head(pattern) = "%"
    THEN like(text, Tail(pattern))
         \/ (text # <<>> /\ like(Tail(text), pattern))
    ELSE IF text = <<>> THEN FALSE
    ELSE /\ Head(pattern) = "_" \/ Head(pattern) = Head(text)
         /\ like(Tail(text), Tail(pattern))

\* text ILIKE pattern
ilike(text, pattern) ==
    like([i \in 1..Len(text) |-> lower(text[i])],
         [i \in 1..Len(pattern) |-> lower(pattern[i])])

\* without the list: false.  Otherwise the oldest item of the list with
\* item_text ILIKE '%itemText%' is deleted, if there is one, the list's
\* access time is updated, and rowCount > 0 is returned
deleteItemFromList(ls, userId, listName, itemText, t) ==
    LET li == findList(ls, userId, listName)
    IN  IF li = 0 THEN [lists |-> ls, deleted |-> FALSE]
        ELSE LET hits == {k \in DOMAIN ls[li].items :
                             ilike(ls[li].items[k].item_text,
                                   <<"%">> \o itemText \o <<"%">>)}
                 touched == updateListAccessTime(ls, ls[li].id, t)
             IN  IF hits = {} THEN [lists |-> touched, deleted |-> FALSE]
                 ELSE LET k0 == CHOOSE k \in hits : \A h \in hits : k <= h
                      IN  [lists |->
                              [touched EXCEPT
                                 ![li].items =
                                     [n \in 1..(Len(@) - 1) |->
                                         IF n < k0 THEN @[n] ELSE @[n + 1]]],
                           deleted |-> TRUE]

\* the sweep's lookup of the lists named in a reminder's message:
\* getListWithItems on every list of the room whose name the message includes
touchLists(ls, roomId, message, t) ==
    [i \in DOMAIN ls |->
        IF ls[i].user_id = roomId /\ includes(message, ls[i].list_name)
        THEN [ls[i] EXCEPT !.last_accessed_at = t]
        ELSE ls[i]]

-----------------------------------------------------------------------------
(* lib/db.ts and app/api/cleanup-check/route.ts: ageing out of stale data. *)

\* const d = new Date(); d.setMonth(d.getMonth() - n)
monthsAgo(t, n, tz) == setMonth(t, getMonth(t, tz) - n, tz)

\* SELECT DISTINCT room_id FROM reminders UNION SELECT DISTINCT user_id ...
getAllRoomIds(rs, ls) ==
    {rs[i].room_id : i \in DOMAIN rs} \cup {ls[i].user_id : i \in DOMAIN ls}

\* getStaleData(roomId): the ids of the rows not updated / not accessed
\* since two months ago, not completed and not yet warned
getStaleData(rs, ls, roomId, t, tz) ==
    The({[reminders |->
             {rs[i].id : i \in {j \in DOMAIN rs :
                 /\ rs[j].room_id = roomId
                 /\ rs[j].updated_at < twoMonthsAgo
                 /\ rs[j].status # "completed"
                 /\ rs[j].cleanup_warning_at = NULL}},
          lists |->
             {ls[i].id : i \in {j \in DOMAIN ls :
                 /\ ls[j].user_id = roomId
                 /\ ls[j].last_accessed_at < twoMonthsAgo
                 /\ ls[j].cleanup_warning_at = NULL}}]
         : twoMonthsAgo \in {monthsAgo(t, 2, tz)}})

\* UPDATE ... SET cleanup_warning_at = CURRENT_TIMESTAMP WHERE id = ANY($1)
\* (both tables); no route calls it
markCleanupWarning(rs, ls, reminderIds, listIds, t) ==
    [reminders |->
        [i \in DOMAIN rs |->
            IF rs[i].id \in reminderIds
            THEN [rs[i] EXCEPT !.cleanup_warning_at = t] ELSE rs[i]],
     lists |->
        [i \in DOMAIN ls |->
            IF ls[i].id \in listIds
            THEN [ls[i] EXCEPT !.cleanup_warning_at = t] ELSE ls[i]]]

\* deleteWarnedData(roomId): the rows of the room warned before one month
\* ago are deleted from both tables; count is the number deleted
deleteWarnedData(rs, ls, roomId, t, tz) ==
    The({LET KeepReminder(r) ==
                 ~(/\ r.room_id = roomId
                   /\ r.cleanup_warning_at # NULL
                   /\ r.cleanup_warning_at < oneMonthAgo)
             KeepList(l) ==
                 ~(/\ l.user_id = roomId
                   /\ l.cleanup_warning_at # NULL
                   /\ l.cleanup_warning_at < oneMonthAgo)
         IN  [reminders |-> SelectSeq(rs, KeepReminder),
              lists |-> SelectSeq(ls, KeepList),
              count |-> (Len(rs) - Len(SelectSeq(rs, KeepReminder)))
                        + (Len(ls) - Len(SelectSeq(ls, KeepList)))]
         : oneMonthAgo \in {monthsAgo(t, 1, tz)}})

\* deleteExpiredWarnings: deleteWarnedData for every room of roomIds; notes
\* collects the deletion notices sent
RECURSIVE deleteExpiredWarnings(_, _, _, _, _, _)
deleteExpiredWarnings(rs, ls, roomIds, notes, t, tz) ==
    IF roomIds = {} THEN [reminders |-> rs, lists |-> ls, notes |-> notes]
    ELSE LET roomId == CHOOSE r \in roomIds : TRUE
             del    == deleteWarnedData(rs, ls, roomId, t, tz)
         IN  deleteExpiredWarnings(
                 del.reminders, del.lists, roomIds \ {roomId},
                 IF del.count > 0
                 THEN notes \cup {[to |-> roomId, deleted |-> del.count]}
                 ELSE notes,
                 t, tz)

\* checkAndNotifyStaleData: the cleanup notices sent, one for every room
\* that has stale data, with the ids its buttons carry
checkAndNotifyStaleData(rs, ls, t, tz) ==
    {[to |-> roomId,
      reminder_ids |-> getStaleData(rs, ls, roomId, t, tz).reminders,
      list_ids |-> getStaleData(rs, ls, roomId, t, tz).lists] :
        roomId \in {r \in getAllRoomIds(rs, ls) :
                      \/ getStaleData(rs, ls, r, t, tz).reminders # {}
                      \/ getStaleData(rs, ls, r, t, tz).lists # {}}}

-----------------------------------------------------------------------------
(* app/api/line/route.ts: the webhook.  A handler's result is the record   *)
(* of what it leaves behind: the tables, the roomStates map, the counters, *)
(* the call it made to the resolver and the reply messages.                *)

\* roomStates.get(roomId) of a room without an entry
Undefined == [waitingFor |-> "undefined"]

Waiting(listName) == [waitingFor |-> "items", listName |-> listName]

\* replyMessages with one text message; the texts are named, not spelled
Text(name) == <<[type |-> "text", text |-> name]>>

\* the state as the handler found it, and no reply
Unchanged ==
    [reminders |-> reminders, lists |-> lists, roomStates |-> roomStates,
     nextId |-> nextId, input |-> input, parsed |-> parsed, reply |-> <<>>]

Replying(name) == [Unchanged EXCEPT !.reply = Text(name)]

showListDetails(roomId, listName) ==
    LET li == findList(lists, roomId, listName)
    IN  [Unchanged EXCEPT
           !.lists = getListWithItems(lists, roomId, listName, now),
           !.reply = IF li = 0 \/ lists[li].items = <<>>
                     THEN Text("list_empty")
                     ELSE Text("list_details")]

showReminderDetails(roomId, reminderName) ==
    IF \E i \in DOMAIN reminders :
          /\ reminders[i].room_id = roomId
          /\ reminders[i].reminder_name = reminderName
          /\ reminders[i].status # "completed"
    THEN Replying("reminder_details")
    ELSE Replying("reminder_not_found")

processListCommand(roomId, parts) ==
    LET n == Len(parts)
    IN  IF n = 1 THEN Replying("help")
        ELSE IF n = 2 /\ parts[2].k = "bye" THEN Replying("bye")
        ELSE IF n = 2 /\ parts[2].k = "ichiran"
        THEN IF \E i \in DOMAIN lists : lists[i].user_id = roomId
             THEN Replying("lists")
             ELSE Replying("no_lists")
        ELSE IF n = 2 THEN showListDetails(roomId, TokText(parts[2]))
        ELSE IF n >= 4 /\ parts[n].k = "sakujo"
        THEN LET listName == TokText(parts[2])
                 itemName == join(SubSeq(parts, 3, n - 1))
                 after    == deleteItemFromList(lists, roomId, listName,
                                                itemName, now)
             IN  IF after.deleted
                 THEN [Unchanged EXCEPT
                         !.lists = getListWithItems(after.lists, roomId,
                                                    listName, now),
                         !.reply = Text("item_deleted")]
                 ELSE [Unchanged EXCEPT
                         !.lists = after.lists,
                         !.reply = Text("item_not_found")]
        ELSE IF n = 3 /\ parts[3].k = "tsuika"
        THEN [Unchanged EXCEPT
                !.lists = createList(lists, nextId.lists, roomId,
                                     TokText(parts[2]), now),
                !.nextId.lists =
                    IF findList(lists, roomId, TokText(parts[2])) = 0
                    THEN @ + 1 ELSE @,
                !.roomStates[roomId] = Waiting(TokText(parts[2])),
                !.reply = Text("tell_me_items")]
        ELSE IF n = 3 /\ parts[3].k = "sakujo"
        THEN [Unchanged EXCEPT
                !.lists = deleteList(lists, roomId, TokText(parts[2])),
                !.reply = IF findList(lists, roomId, TokText(parts[2])) # 0
                          THEN Text("list_deleted")
                          ELSE Text("list_not_found")]
        ELSE Replying("unknown")

\* the registration branch of processReminderCommand with the reminder
\* created whatever the resolver answered
registration_BestEffort(roomId, parts) ==
    LET fullMessage == join(SubSeq(parts, 4, Len(parts)))
        task        == trim(replaceKeywords(fullMessage, 1))
    IN  The({[Unchanged EXCEPT
                !.input = [dateStr |-> parts[2], timeStr |-> parts[3],
                           ref |-> now],
                !.parsed = p,
                !.reminders = createReminder(reminders, nextId.reminders,
                                  roomId, substring20(task), task, p.date,
                                  parseRepeatPattern(fullMessage), now),
                !.nextId.reminders = @ + 1,
                !.reply = IF p.success THEN Text("reminder_set")
                          ELSE Text(p.error)]
             : p \in {parseDateTime(parts[2], parts[3], now, serverTz)}})

\* the registration branch of processReminderCommand (parts.length >= 4).
\* An Invalid Date is refused by the database: createReminder throws.
registration(roomId, parts) ==
    LET fullMessage == join(SubSeq(parts, 4, Len(parts)))
        task        == trim(replaceKeywords(fullMessage, 1))
    IN  The({[Unchanged EXCEPT
                !.input = [dateStr |-> parts[2], timeStr |-> parts[3],
                           ref |-> now],
                !.parsed = p,
                !.reminders =
                    IF p.success /\ p.date # NaN
                    THEN createReminder(reminders, nextId.reminders, roomId,
                             substring20(task), task, p.date,
                             parseRepeatPattern(fullMessage), now)
                    ELSE @,
                !.nextId.reminders =
                    IF p.success /\ p.date # NaN THEN @ + 1 ELSE @,
                !.reply = IF ~p.success THEN Text(p.error)
                          ELSE IF p.date = NaN THEN Text("register_error")
                          ELSE Text("reminder_set")]
             : p \in {parseDateTime(parts[2], parts[3], now, serverTz)}})

processReminderCommand(roomId, parts) ==
    LET n == Len(parts)
    IN  IF n = 1 THEN Replying("help")
        ELSE IF n = 2 /\ parts[2].k = "ichiran"
        THEN IF \E i \in DOMAIN reminders :
                   /\ reminders[i].room_id = roomId
                   /\ reminders[i].status # "completed"
             THEN Replying("reminders")
             ELSE Replying("no_reminders")
        ELSE IF n = 2 /\ parts[2].k = "rireki"
        THEN IF \E i \in DOMAIN reminders :
                   /\ reminders[i].room_id = roomId
                   /\ reminders[i].status = "completed"
             THEN Replying("history")
             ELSE Replying("no_history")
        ELSE IF n = 3 /\ parts[3].k = "sakujo"
        THEN [Unchanged EXCEPT
                !.reminders = deleteReminder(reminders, roomId,
                                             TokText(parts[2])),
                !.reply = IF deleteReminder(reminders, roomId,
                                            TokText(parts[2])) # reminders
                          THEN Text("reminder_deleted")
                          ELSE Text("reminder_not_found")]
        ELSE IF n >= 4 THEN registration(roomId, parts)
        ELSE Replying("wrong_usage")

\* the branch of processMessage for a room waiting for items
addWaitingItems(roomId, message) ==
    LET items    == splitItems(message)
        listName == roomStates[roomId].listName
        li       == findList(lists, roomId, listName)
    IN  IF items = <<>>
        THEN [Unchanged EXCEPT !.roomStates[roomId] = Undefined,
                               !.reply = Text("no_items")]
        ELSE IF li # 0
        THEN [Unchanged EXCEPT
                !.lists = addItemsToList(lists, lists[li].id, items,
                                         nextId.list_items, now),
                !.nextId.list_items = @ + Len(items),
                !.roomStates[roomId] = Undefined,
                !.reply = Text("items_added")]
        ELSE [Unchanged EXCEPT !.roomStates[roomId] = Undefined,
                               !.reply = Text("list_not_found")]

\* the waiting branch when the store throws: getListWithItems throws, or
\* addItemsToList throws after k of the INSERTs; the catch deletes the
\* waiting state
addWaitingItems_StoreFails(roomId, message, k) ==
    LET items    == splitItems(message)
        listName == roomStates[roomId].listName
        li       == findList(lists, roomId, listName)
    IN  IF li = 0 \/ k = 0
        THEN [Unchanged EXCEPT !.roomStates[roomId] = Undefined,
                               !.reply = Text("error")]
        ELSE [Unchanged EXCEPT
                !.lists = addItemsToList(lists, lists[li].id,
                                         SubSeq(items, 1, k),
                                         nextId.list_items, now),
                !.nextId.list_items = @ + k,
                !.roomStates[roomId] = Undefined,
                !.reply = Text("error")]

\* the dispatch with the command prefixes tested before the waiting state
processMessage_CommandsFirst(roomId, message) ==
    LET parts == split(message)
    IN  IF parts # <<>> /\ parts[1].k = "oboeru"
        THEN processListCommand(roomId, parts)
        ELSE IF parts # <<>> /\ parts[1].k = "oshiete"
        THEN processReminderCommand(roomId, parts)
        ELSE IF roomStates[roomId].waitingFor = "items"
        THEN addWaitingItems(roomId, message)
        ELSE IF Len(parts) = 1 /\ parts[1].k = "help"
        THEN Replying("help")
        ELSE Unchanged

\* message is the trimmed text; an empty text splits into one empty part
processMessage(roomId, message) ==
    LET parts == split(message)
    IN  IF roomStates[roomId].waitingFor = "items"
        THEN addWaitingItems(roomId, message)
        ELSE IF parts # <<>> /\ parts[1].k = "oboeru"
        THEN processListCommand(roomId, parts)
        ELSE IF parts # <<>> /\ parts[1].k = "oshiete"
        THEN processReminderCommand(roomId, parts)
        ELSE IF Len(parts) = 1 /\ parts[1].k = "help"
        THEN Replying("help")
        ELSE Unchanged

\* the postback branch of POST: data is the parsed postback.data
processPostback(roomId, data) ==
    CASE data.action = "snooze" ->
            [Unchanged EXCEPT
               !.reminders = snoozeReminder(reminders, data.reminder_id,
                                            data.minutes, now),
               !.reply = Text("snoozed")]
      [] data.action = "complete" ->
            [Unchanged EXCEPT
               !.reminders = completeReminder(reminders, data.reminder_id,
                                              now),
               !.reply = Text("completed")]
      [] data.action = "show_list" -> showListDetails(roomId, data.list_name)
      [] data.action = "add_to_list" ->
            [Unchanged EXCEPT
               !.roomStates[roomId] = Waiting(data.list_name),
               !.reply = Text("tell_me_items")]
      [] data.action = "delete_list" ->
            [Unchanged EXCEPT
               !.lists = deleteList(lists, roomId, data.list_name),
               !.reply = IF findList(lists, roomId, data.list_name) # 0
                         THEN Text("list_deleted")
                         ELSE Text("list_not_found")]
      [] data.action = "show_reminder" ->
            showReminderDetails(roomId, data.reminder_name)
      [] data.action = "delete_reminder" ->
            [Unchanged EXCEPT
               !.reminders = deleteReminder(reminders, roomId,
                                            data.reminder_name),
               !.reply = IF deleteReminder(reminders, roomId,
                                           data.reminder_name) # reminders
                         THEN Text("reminder_deleted")
                         ELSE Text("reminder_not_found")]
      [] OTHER -> Unchanged

-----------------------------------------------------------------------------
(* The bot at work: webhook events, delivery sweeps and the clock.         *)

Rooms == {"A", "B"}

\* the clock starts at 08:50 JST and advances in steps
SysStart == Jst(2025, 1, 31, 8, 50, 0)
TickSeconds == 900
MaxTicks == 2

\* caps on the rows ever inserted and on the push messages sent
MaxReminders == 2
MaxLists == 1
MaxItems == 1
MaxPushed == 2

Oshiete == Word("oshiete")
Oboeru == Word("oboeru")
Kyou == DatePhrase("kyou_kanji", 0, 0, 0)
ListName == <<"L">>

\* the text events users send: the room and the text
TextEvents ==
    {<<"A", <<<<Oshiete, Kyou, TimePhrase("h_ji", 9, 0),
                TextTok(<<"x">>)>>>>>>,
     <<"A", <<<<Oshiete, Kyou, TimePhrase("h_colon_m", 9, 20),
                TextTok(<<"mai", "nichi", "L">>)>>>>>>,
     <<"A", <<<<Oshiete, Kyou, TimePhrase("h_ji", 8, 0),
                TextTok(<<"x">>)>>>>>>,
     <<"A", <<<<Oshiete, Kyou, TimePhrase("h_ji", 9, 0),
                TextTok(<<"mai", "mai", "nichi", "nichi">>),
                TextTok(<<"x">>)>>>>>>,
     <<"A", <<<<Oshiete, DatePhrase("n_nichi_go", 0, 0, MaxDay),
                TimePhrase("asa_kanji", 0, 0), TextTok(<<"x">>)>>>>>>,
     <<"A", <<<<Oshiete, TextTok(<<"x">>), Word("sakujo")>>>>>>,
     <<"A", <<<<Oshiete, Word("ichiran")>>>>>>,
     <<"A", <<<<Oboeru, TextTok(ListName), Word("tsuika")>>>>>>,
     <<"B", <<<<Oboeru, TextTok(ListName), Word("tsuika")>>>>>>,
     <<"B", <<<<TextTok(<<"a">>)>>>>>>,
     <<"B", <<<<Oboeru, TextTok(ListName)>>>>>>}

\* the postback events of the list buttons: the room and the data
PostbackEvents ==
    {<<"B", [action |-> "add_to_list", list_name |-> ListName]>>,
     <<"B", [action |-> "delete_list", list_name |-> ListName]>>}

Idle == [pc |-> "idle", due |-> <<>>, readAt |-> 0]

NoInput == [dateStr |-> Word("none"), timeStr |-> Word("none"), ref |-> 0]

\* nothing stored yet, nobody waiting, no sweep running
InitWebhook ==
    /\ now = SysStart
    /\ serverTz \in ServerTzs
    /\ input = NoInput
    /\ parsed = NotCalled
    /\ reminders = <<>>
    /\ advanced = <<>>
    /\ lists = <<>>
    /\ roomStates = [r \in Rooms |-> Undefined]
    /\ nextId = [reminders |-> 1, lists |-> 1, list_items |-> 1]
    /\ sweep = [s \in {1} |-> Idle]
    /\ pushed = <<>>
    /\ reply = <<>>
    /\ event = [type |-> "start"]

\* the store, the waiting states and the reply after a handler
Store(out) ==
    /\ reminders' = out.reminders
    /\ lists' = out.lists
    /\ roomStates' = out.roomStates
    /\ nextId' = out.nextId
    /\ input' = out.input
    /\ parsed' = out.parsed
    /\ reply' = out.reply

\* what a webhook handler leaves behind
Leave(out) ==
    /\ out.nextId.reminders > nextId.reminders
          => nextId.reminders <= MaxReminders
    /\ out.nextId.lists > nextId.lists => nextId.lists <= MaxLists
    /\ out.nextId.list_items > nextId.list_items
          => nextId.list_items <= MaxItems
    /\ Store(out)

\* POST with one text message event
TextEvent(roomId, message) ==
    /\ \E out \in {processMessage(roomId, message)} : Leave(out)
    /\ event' = [type |-> "message", roomId |-> roomId, text |-> message]
    /\ UNCHANGED <<now, serverTz, advanced, sweep, pushed>>

\* POST with one postback event
PostbackEvent(roomId, data) ==
    /\ \E out \in {processPostback(roomId, data)} : Leave(out)
    /\ event' = [type |-> "postback", roomId |-> roomId, data |-> data]
    /\ UNCHANGED <<now, serverTz, advanced, sweep, pushed>>

\* GET of the cron route up to the loop: the due reminders are read
CronRead(s) ==
    /\ sweep[s].pc = "idle"
    /\ Len(pushed) < MaxPushed
    /\ \E due \in getDueReminders(reminders, now) :
          sweep' = [sweep EXCEPT ![s] = [pc |-> "loop", due |-> due,
                                         readAt |-> now]]
    /\ event' = [type |-> "cron_read", sweeper |-> s]
    /\ UNCHANGED <<now, serverTz, input, parsed, reminders, advanced, lists,
                   roomStates, nextId, pushed, reply>>

\* the round with a failure that is not caught inside the loop
CronStep_FailureEndsLoop(s, sent) ==
    /\ sweep[s].pc = "loop"
    /\ sweep[s].due # <<>>
    /\ \E reminder \in {Head(sweep[s].due)} :
          /\ lists' = touchLists(lists, reminder.room_id, reminder.message,
                                 now)
          /\ pushed' = IF sent
                       THEN Append(pushed, [sweeper |-> s,
                                            readAt |-> sweep[s].readAt,
                                            reminder |-> reminder,
                                            at |-> now])
                       ELSE pushed
          /\ reminders' = IF sent /\ reminder.repeat_pattern # "null"
                          THEN rescheduleRepeatingReminder(reminders, reminder,
                                                           serverTz, now)
                          ELSE reminders
          /\ event' = [type |-> "cron_step", sweeper |-> s,
                       reminder_id |-> reminder.id, sent |-> sent]
    /\ sweep' = [sweep EXCEPT ![s].due = IF sent THEN Tail(@) ELSE <<>>]
    /\ UNCHANGED <<now, serverTz, input, parsed, advanced, roomStates,
                   nextId, reply>>

\* one round of the loop: the lists named in the message are looked up, the
\* push message is sent (sent = FALSE: fetch throws and the round ends in
\* the catch), and a reminder that repeats is rescheduled
CronStep(s, sent) ==
    /\ sweep[s].pc = "loop"
    /\ sweep[s].due # <<>>
    /\ \E reminder \in {Head(sweep[s].due)} :
          /\ lists' = touchLists(lists, reminder.room_id, reminder.message,
                                 now)
          /\ pushed' = IF sent
                       THEN Append(pushed, [sweeper |-> s,
                                            readAt |-> sweep[s].readAt,
                                            reminder |-> reminder,
                                            at |-> now])
                       ELSE pushed
          /\ reminders' = IF sent /\ reminder.repeat_pattern # "null"
                          THEN rescheduleRepeatingReminder(reminders, reminder,
                                                           serverTz, now)
                          ELSE reminders
          /\ event' = [type |-> "cron_step", sweeper |-> s,
                       reminder_id |-> reminder.id, sent |-> sent]
    /\ sweep' = [sweep EXCEPT ![s].due = Tail(@)]
    /\ UNCHANGED <<now, serverTz, input, parsed, advanced, roomStates,
                   nextId, reply>>

\* the loop is over and the route answers
CronEnd(s) ==
    /\ sweep[s].pc = "loop"
    /\ sweep[s].due = <<>>
    /\ sweep' = [sweep EXCEPT ![s] = Idle]
    /\ event' = [type |-> "cron_end", sweeper |-> s]
    /\ UNCHANGED <<now, serverTz, input, parsed, reminders, advanced, lists,
                   roomStates, nextId, pushed, reply>>

Tick ==
    /\ now < SysStart + MaxTicks * TickSeconds
    /\ now' = now + TickSeconds
    /\ event' = [type |-> "tick"]
    /\ UNCHANGED <<serverTz, input, parsed, reminders, advanced, lists,
                   roomStates, nextId, sweep, pushed, reply>>

ChannelSecret == "channel secret"

\* crypto.createHmac("sha256", secret).update(body).digest("base64"): the
\* digest is a function of the key and the body, different for different
\* keys or bodies
createHmac(secret, body) == [key |-> secret, of |-> body]

\* req.headers.get("x-line-signature") || "" of a request without the header
NoSignature == [key |-> "", of |-> <<>>]

\* a check that only asks for some signature
signatureMatches_AnyPresent(body, signature) == signature # NoSignature

\* signature === hash
signatureMatches(body, signature) ==
    signature = createHmac(ChannelSecret, body)

\* POST: body is the request body, here with one event, and signature the
\* x-line-signature header; a request that fails the check is answered 401
POST(body, signature) ==
    IF signatureMatches(body, signature)
    THEN \/ /\ body.type = "message"
            /\ TextEvent(body.roomId, body.text)
         \/ /\ body.type = "postback"
            /\ PostbackEvent(body.roomId, body.data)
    ELSE /\ event' = [type |-> "rejected", status |-> 401]
         /\ reply' = <<>>
         /\ UNCHANGED <<now, serverTz, input, parsed, reminders, advanced,
                        lists, roomStates, nextId, sweep, pushed>>

\* the request bodies of the events users send
Bodies ==
    {[type |-> "message", roomId |-> e[1], text |-> e[2]] : e \in TextEvents}
    \cup {[type |-> "postback", roomId |-> e[1], data |-> e[2]] :
             e \in PostbackEvents}

\* bodies somebody else sends: a registration and a list command
ForgedBodies ==
    {[type |-> "message", roomId |-> "A",
      text |-> <<<<Oshiete, Kyou, TimePhrase("h_ji", 9, 0),
                   TextTok(<<"x">>)>>>>],
     [type |-> "message", roomId |-> "B",
      text |-> <<<<Oboeru, TextTok(ListName), Word("tsuika")>>>>]}

\* requests: the platform's, signed under the channel secret; and forged
\* ones, signed under another key, carrying the signature of another body,
\* or unsigned
Requests ==
    {<<b, createHmac(ChannelSecret, b)>> : b \in Bodies}
    \cup {<<b, createHmac("another secret", b)>> : b \in ForgedBodies}
    \cup {<<b, createHmac(ChannelSecret,
                          [type |-> "message", roomId |-> "A",
                           text |-> <<<<Oshiete>>>>])>> : b \in ForgedBodies}
    \cup {<<b, NoSignature>> : b \in ForgedBodies}

\* the webhook alone: the clock stands still and no sweep runs
NextWebhook == \E req \in Requests : POST(req[1], req[2])

SpecWebhook == InitWebhook /\ [][NextWebhook]_vars

At0900 == Jst(2025, 1, 31, 9, 0, 0)
At0920 == Jst(2025, 1, 31, 9, 20, 0)
Registered == SysStart - 3600

\* stores as registrations and the store's status updates leave them: a
\* reminder that repeats stored before one that fires earlier and a
\* completed one; two with the same remind_at and one for tomorrow; one that
\* updateReminderStatus has set pending
SweepStores ==
    {<<Row(1, "A", <<"L">>, <<"L">>, At0920, "active", "daily", Registered),
       Row(2, "A", <<"x">>, <<"x">>, At0900, "active", "null", Registered),
       Row(3, "B", <<"z">>, <<"z">>, At0900 - 3600, "completed", "null",
           Registered)>>,
     <<Row(1, "A", <<"x">>, <<"x">>, At0900, "active", "null", Registered),
       Row(2, "B", <<"y">>, <<"y">>, At0900, "active", "null", Registered),
       Row(3, "A", <<"w">>, <<"w">>, At0900 + SecPerDay, "active", "null",
           Registered)>>,
     <<Row(1, "A", <<"x">>, <<"x">>, At0900, "pending", "null", Registered),
       Row(2, "A", <<"y">>, <<"y">>, At0920, "active", "weekly",
           Registered)>>}

InitSweep ==
    /\ now = SysStart
    /\ serverTz \in ServerTzs
    /\ input = NoInput
    /\ parsed = NotCalled
    /\ reminders \in SweepStores
    /\ advanced = <<>>
    /\ lists = <<ListRow(1, "A", ListName, <<>>, Registered)>>
    /\ roomStates = [r \in Rooms |-> Undefined]
    /\ nextId = [reminders |-> Len(reminders) + 1, lists |-> 2,
                 list_items |-> 1]
    /\ sweep = [s \in {1} |-> Idle]
    /\ pushed = <<>>
    /\ reply = <<>>
    /\ event = [type |-> "start"]

\* sendReminderWithSnooze: the data of the buttons under a push message
Buttons(reminderId) ==
    {[action |-> "snooze", reminder_id |-> reminderId, minutes |-> m] :
        m \in {30, 60, 180}}
    \cup {[action |-> "complete", reminder_id |-> reminderId]}

\* a member of the room presses a button of a push message received
ButtonEvent(i) ==
    \E data \in Buttons(pushed[i].reminder.id) :
       PostbackEvent(pushed[i].reminder.room_id, data)

\* sweeps, the buttons they send and the clock
NextSweep ==
    \/ \E s \in DOMAIN sweep : CronRead(s)
    \/ \E s \in DOMAIN sweep, sent \in BOOLEAN : CronStep(s, sent)
    \/ \E s \in DOMAIN sweep : CronEnd(s)
    \/ \E i \in DOMAIN pushed : ButtonEvent(i)
    \/ Tick

SpecSweep == InitSweep /\ [][NextSweep]_vars


-----------------------------------------------------------------------------
(* Two sweeps that overlap, and postbacks from either room.                *)

\* stores at the start: a daily reminder of room A that is due now, or one
\* that has been due for three days, no sweep having run meanwhile
OverlapStores ==
    {<<Row(1, "A", <<"x">>, <<"x">>, SysStart, "active", "daily",
           Registered)>>,
     <<Row(1, "A", <<"x">>, <<"x">>, SysStart - 3 * SecPerDay, "active",
           "daily", SysStart - 4 * SecPerDay)>>}

InitOverlap ==
    /\ now = SysStart
    /\ serverTz = 0
    /\ input = NoInput
    /\ parsed = NotCalled
    /\ reminders \in OverlapStores
    /\ advanced = <<>>
    /\ lists = <<>>
    /\ roomStates = [r \in Rooms |-> Undefined]
    /\ nextId = [reminders |-> Len(reminders) + 1, lists |-> 1,
                 list_items |-> 1]
    /\ sweep = [s \in {1, 2} |-> Idle]
    /\ pushed = <<>>
    /\ reply = <<>>
    /\ event = [type |-> "start"]

\* a postback with the data of the 30 minutes button or of the complete
\* button of push message i, sent from room r (the room of the reminder or
\* the other one)
ButtonData(r, i) ==
    \E data \in {b \in Buttons(pushed[i].reminder.id) :
                    b.action = "complete" \/ b.minutes = 30} :
       PostbackEvent(r, data)

NextOverlap ==
    \/ \E s \in DOMAIN sweep : CronRead(s)
    \/ \E s \in DOMAIN sweep : CronStep(s, TRUE)
    \/ \E s \in DOMAIN sweep : CronEnd(s)
    \/ \E r \in Rooms, i \in DOMAIN pushed : ButtonData(r, i)
    \/ Tick

SpecOverlap == InitOverlap /\ [][NextOverlap]_vars

-----------------------------------------------------------------------------
(* The list commands at work: lists made, filled, emptied and deleted.     *)

\* caps on the lists and the items ever inserted
MaxListRows == 2
MaxListItems == 1

Tsuika(listName) == <<<<Oboeru, TextTok(listName), Word("tsuika")>>>>

\* おぼえるくん listName itemName 削除
DeleteItem(listName, itemName) ==
    <<<<Oboeru, TextTok(listName), TextTok(itemName), Word("sakujo")>>>>

\* the item names users ask to delete
ItemNames == {<<"a">>, <<"A">>, <<"_">>}

\* the text events about lists: the room and the text
ListEvents ==
    {<<"A", Tsuika(ListName)>>,
     <<"B", Tsuika(ListName)>>,
     <<"A", <<<<TextTok(<<"a", "b">>)>>, <<TextTok(<<"a">>)>>>>>>,
     <<"A", <<<<Oboeru, TextTok(ListName), Word("sakujo")>>>>>>,
     <<"A", DeleteItem(<<"N">>, <<"a">>)>>,
     <<"A", <<<<>>>>>>,
     <<"B", <<<<Oboeru, TextTok(ListName), Word("sakujo")>>>>>>,
     <<"B", DeleteItem(ListName, <<"a">>)>>}
    \cup {<<"A", DeleteItem(ListName, name)>> : name \in ItemNames}

\* the postback events of the list buttons, from either room
ListPostbacks ==
    {<<r, [action |-> a, list_name |-> ListName]>> :
        r \in Rooms, a \in {"add_to_list", "delete_list"}}

InitLists == InitWebhook /\ serverTz = 0

\* POST with one text message event about lists
ListEvent(roomId, message) ==
    /\ \E out \in {processMessage(roomId, message)} :
          /\ out.nextId.lists > nextId.lists => nextId.lists <= MaxListRows
          /\ out.nextId.list_items > nextId.list_items
                => nextId.list_items <= MaxListItems
          /\ Store(out)
    /\ event' = [type |-> "message", roomId |-> roomId, text |-> message]
    /\ UNCHANGED <<now, serverTz, advanced, sweep, pushed>>

\* the same event with the store failing while the items are added
ListEventStoreFails(roomId, message) ==
    /\ roomStates[roomId].waitingFor = "items"
    /\ splitItems(message) # <<>>
    /\ \E k \in 0..(Len(splitItems(message)) - 1) :
          \E out \in {addWaitingItems_StoreFails(roomId, message, k)} :
             /\ out.nextId.list_items > nextId.list_items
                   => nextId.list_items <= MaxListItems
             /\ Store(out)
    /\ event' = [type |-> "message", roomId |-> roomId, text |-> message,
                 store |-> "fails"]
    /\ UNCHANGED <<now, serverTz, advanced, sweep, pushed>>

NextLists ==
    \/ \E e \in ListEvents : ListEvent(e[1], e[2])
    \/ \E e \in ListEvents : ListEventStoreFails(e[1], e[2])
    \/ \E e \in ListPostbacks : PostbackEvent(e[1], e[2])

SpecLists == InitLists /\ [][NextLists]_vars

-----------------------------------------------------------------------------
(* The cleanup sweep at work on data nobody touches, over some months.     *)

CleanupStart == Jst(2025, 1, 31, 9, 0, 0)
DaysPerTick == 31
MaxCleanupTicks == 3

\* how long before the start the rows were last touched, in days
Ages == {0, 61, 90}

InitCleanup ==
    /\ now = CleanupStart
    /\ serverTz \in ServerTzs
    /\ input = NoInput
    /\ parsed = NotCalled
    /\ \E a1 \in Ages, a2 \in Ages, st \in {"active", "completed"} :
          /\ reminders =
                <<Row(1, "A", <<"x">>, <<"x">>, CleanupStart + 3600, st,
                      "null", CleanupStart - a1 * SecPerDay)>>
          /\ lists =
                <<ListRow(1, "B", ListName, <<>>,
                          CleanupStart - a2 * SecPerDay)>>
    /\ advanced = <<>>
    /\ roomStates = [r \in Rooms |-> Undefined]
    /\ nextId = [reminders |-> 2, lists |-> 2, list_items |-> 1]
    /\ sweep = [s \in {1} |-> Idle]
    /\ pushed = <<>>
    /\ reply = <<>>
    /\ event = [type |-> "start"]

\* GET of the cleanup-check route: the expired warnings are deleted, then
\* the rooms with stale data are sent the cleanup notice
CleanupCheck ==
    /\ \E del \in {deleteExpiredWarnings(reminders, lists,
                       getAllRoomIds(reminders, lists), {}, now, serverTz)} :
          /\ reminders' = del.reminders
          /\ lists' = del.lists
          /\ event' = [type |-> "cleanup", deletions |-> del.notes,
                       notices |-> checkAndNotifyStaleData(
                                       del.reminders, del.lists, now,
                                       serverTz)]
    /\ UNCHANGED <<now, serverTz, input, parsed, advanced, roomStates,
                   nextId, sweep, pushed, reply>>

CleanupTick ==
    /\ now < CleanupStart + MaxCleanupTicks * DaysPerTick * SecPerDay
    /\ now' = now + DaysPerTick * SecPerDay
    /\ event' = [type |-> "tick"]
    /\ UNCHANGED <<serverTz, input, parsed, reminders, advanced, lists,
                   roomStates, nextId, sweep, pushed, reply>>

NextCleanup == CleanupCheck \/ CleanupTick

\* the scheduler keeps calling the route and time keeps passing
SpecCleanup ==
    /\ InitCleanup
    /\ [][NextCleanup]_vars
    /\ WF_vars(CleanupCheck)
    /\ WF_vars(CleanupTick)

-----------------------------------------------------------------------------
(* The two sweep routes behind the cron secret.                            *)

CronSecret == "cron secret"

\* `Bearer ${process.env.CRON_SECRET}`
Bearer(secret) == <<"Bearer", " ", secret>>

\* req.headers.get("authorization") of a request without the header
NoHeader == <<"null">>

\* a test that only asks for the Bearer scheme
authorized_AnyBearer(authHeader) ==
    Len(authHeader) = 3 /\ authHeader[1] = "Bearer"

\* authHeader !== `Bearer ${process.env.CRON_SECRET}` is false
authorized(authHeader) == authHeader = Bearer(CronSecret)

\* the answer of either route to a request it refuses
Unauthorized(route) ==
    /\ event' = [type |-> "rejected", status |-> 401, route |-> route]
    /\ UNCHANGED <<now, serverTz, input, parsed, reminders, advanced, lists,
                   roomStates, nextId, sweep, pushed, reply>>

\* GET of the delivery sweep
CronGET(s, authHeader) ==
    IF authorized(authHeader) THEN CronRead(s) ELSE Unauthorized("cron")

\* GET of the cleanup sweep
CleanupGET(authHeader) ==
    IF authorized(authHeader) THEN CleanupCheck
    ELSE Unauthorized("cleanup-check")

\* the headers of the scheduler and of others: another secret, the secret
\* without the scheme, the secret in another case, no header
AuthHeaders ==
    {Bearer(CronSecret), Bearer("another secret"), <<CronSecret>>,
     <<"bearer", " ", CronSecret>>, NoHeader}

LongAgo == SysStart - 90 * SecPerDay

\* a store with reminders that are due and a list nobody has touched for
\* three months, or one touched an hour ago
InitGuard ==
    /\ now = SysStart
    /\ serverTz \in ServerTzs
    /\ input = NoInput
    /\ parsed = NotCalled
    /\ reminders \in SweepStores
    /\ advanced = <<>>
    /\ lists \in {<<ListRow(1, "A", ListName, <<>>, t)>> :
                     t \in {LongAgo, Registered}}
    /\ roomStates = [r \in Rooms |-> Undefined]
    /\ nextId = [reminders |-> Len(reminders) + 1, lists |-> 2,
                 list_items |-> 1]
    /\ sweep = [s \in {1} |-> Idle]
    /\ pushed = <<>>
    /\ reply = <<>>
    /\ event = [type |-> "start"]

NextGuard ==
    \/ \E s \in DOMAIN sweep, h \in AuthHeaders : CronGET(s, h)
    \/ \E s \in DOMAIN sweep, sent \in BOOLEAN : CronStep(s, sent)
    \/ \E s \in DOMAIN sweep : CronEnd(s)
    \/ \E h \in AuthHeaders : CleanupGET(h)
    \/ Tick

SpecGuard == InitGuard /\ [][NextGuard]_vars

-----------------------------------------------------------------------------
(* Properties of the resolver, checked under SpecResolve.                  *)

Called == parsed # NotCalled

\* the month after civil month (y, mo), mo 0-based
NextMonth(y, mo) ==
    IF mo = 11 THEN [y |-> y + 1, mo |-> 0] ELSE [y |-> y, mo |-> mo + 1]

\* the days every year has in month m (1..12)
DaysInMonth(m) ==
    IF m = 2 THEN 28 ELSE IF m \in {4, 6, 9, 11} THEN 30 ELSE 31

\* C1: the resolver returns success=true only when the resolved UTC instant
\* is strictly after the reference instant, and whenever the resolved instant
\* is at or before the reference it returns success=false with the past-date
\* error.
C1_SuccessOnlyStrictlyAfterRef ==
    Called =>
        /\ parsed.success => (parsed.date # NaN /\ parsed.date > input.ref)
        /\ (parsed.date # NaN /\ parsed.date <= input.ref) =>
               (~parsed.success /\ parsed.error = PastError)

\* C8: for a phrase <N>日 the resolved civil date is day N of the current
\* civil month when N is not before civil-today's day, and otherwise day N of
\* exactly the next civil month.
C8_DayOfMonthRollsOneMonth ==
    (Called /\ input.dateStr.k = "n_nichi") =>
        LET today == Civil(input.ref)
            n     == input.dateStr.d
            r     == Civil(parsed.date)
            exp   == IF n >= today.d THEN [y |-> today.y, mo |-> today.mo]
                     ELSE NextMonth(today.y, today.mo)
        IN  r.y = exp.y /\ r.mo = exp.mo /\ r.d = n

\* C9: for a phrase <M>月<D>日 with D a valid day of month M the resolved
\* civil date is month M, day D, in the current civil year when that date is
\* not before civil-today and otherwise in the next civil year, for every
\* reference date.
C9_MonthDayKeepsMonthAndDay ==
    (Called /\ input.dateStr.k = "m_gatsu_d_nichi"
            /\ input.dateStr.m \in 1..12
            /\ input.dateStr.d \in 1..DaysInMonth(input.dateStr.m)) =>
        LET today == Civil(input.ref)
            m     == input.dateStr.m
            d     == input.dateStr.d
            r     == Civil(parsed.date)
            notBefore == \/ m - 1 > today.mo
                         \/ (m - 1 = today.mo /\ d >= today.d)
        IN  /\ r.y = (IF notBefore THEN today.y ELSE today.y + 1)
            /\ r.mo = m - 1
            /\ r.d = d

\* C10: for a phrase <YYYY>年<M>月<D>日 the resolved instant is that civil
\* date at the resolved civil time minus 9 hours, whatever the reference
\* instant is; only the success flag depends on the reference.
C10_ExplicitYearIsAbsolute ==
    (Called /\ input.dateStr.k = "y_nen_m_gatsu_d_nichi") =>
        LET dp == input.dateStr
            hm == ResolveTime(input.timeStr)
        IN  /\ parsed.date =
                   DaysFromCivil(dp.y, dp.m, dp.d) * SecPerDay
                     + hm.h * 3600 + hm.mi * 60 - 9 * 3600
            /\ parsed.success = (parsed.date > input.ref)

\* 2025年12月25日 15時30分 resolved to 2025-12-25T06:30:00Z
C10_Witness ==
    /\ Called
    /\ input.dateStr = DatePhrase("y_nen_m_gatsu_d_nichi", 2025, 12, 25)
    /\ input.timeStr = TimePhrase("h_ji_m_fun", 15, 30)
    /\ parsed.date = 1766644200
    /\ parsed.success

\* the number of days a literal date phrase stands for
LiteralDays(k) ==
    CASE k \in {"kyou_kanji", "kyou_kana"} -> 0
      [] k \in {"ashita_kanji", "ashita_kana"} -> 1
      [] k \in {"asatte_kanji", "asatte_kana"} -> 2
      [] k \in {"raishuu_kanji", "raishuu_kana"} -> 7
      [] k \in {"saraishuu_kanji", "saraishuu_kana"} -> 14

\* the civil (UTC+9) day number of an instant
CivilDayNumber(t) == (t + 9 * 3600) \div SecPerDay

\* C11: for each literal date phrase, in either spelling, with no time
\* phrase, the resolved instant is civil 09:00:00 of civil-today plus 0, 1, 2,
\* 7 or 14 days, carried across month and year ends; so the two spellings of
\* one phrase give the same result.
C11_LiteralDatePlusOffsetAtNine ==
    (Called /\ input.dateStr.k \in DateLiterals
            /\ input.timeStr.k = "absent") =>
        parsed.date =
            (CivilDayNumber(input.ref) + LiteralDays(input.dateStr.k))
               * SecPerDay + 9 * 3600 - 9 * 3600

\* らいしゅう on 2025-12-28 08:30 JST resolved to 2026-01-04 09:00 JST
C11_Witness ==
    /\ Called
    /\ input.dateStr.k = "raishuu_kana"
    /\ input.timeStr.k = "absent"
    /\ input.ref = Jst(2025, 12, 28, 8, 30, 0)
    /\ parsed.success
    /\ parsed.date = Jst(2026, 1, 4, 9, 0, 0)

\* the civil hour and minute a time phrase stands for
PhraseTime(tp) ==
    CASE tp.k \in {"asa_kanji", "asa_kana"} -> <<9, 0>>
      [] tp.k \in {"hiru_kanji", "hiru_kana", "ohiru_kanji", "ohiru_kana"} ->
            <<12, 0>>
      [] tp.k \in {"gogo_kanji", "gogo_kana"} -> <<15, 0>>
      [] tp.k \in {"yuugata_kanji", "yuugata_kana"} -> <<18, 0>>
      [] tp.k \in {"yoru_kanji", "yoru_kana"} -> <<18, 0>>
      [] tp.k \in {"shinya_kanji", "shinya_kana"} -> <<22, 0>>
      [] tp.k = "h_ji" -> <<tp.h, 0>>
      [] tp.k \in {"h_ji_m_fun", "h_colon_m"} -> <<tp.h, tp.mi>>
      [] tp.k \in {"absent", "other"} -> <<9, 0>>

\* C12: the civil time of day of the resolved instant is the one of the time
\* phrase alone (literals 9, 12, 15, 18, 18, 22 o'clock; H時 H:00; H時M分 and
\* H:M H:M; absent or unmatched 09:00) with seconds zero, and its civil date
\* is the date resolved from the date phrase.
C12_TimeOfDayFromTimePhraseAlone ==
    (Called /\ parsed.date # NaN) =>
        LET r     == Civil(parsed.date)
            exp   == PhraseTime(input.timeStr)
            jst   == input.ref + OffsetDiff(serverTz) * 60
            onDay == Fields(ResolveDate(input.dateStr, jst, serverTz),
                            serverTz)
        IN  /\ r.h = exp[1] /\ r.mi = exp[2] /\ r.s = 0
            /\ r.y = onDay.y /\ r.mo = onDay.mo /\ r.d = onDay.d

-----------------------------------------------------------------------------
(* Display of the resolved instant, checked under SpecResolve.             *)

\* the month, day, hour and minute read off a displayed date; a display with
\* no minute part shows a full hour
Shown(text) ==
    LET body == IF Len(text) >= 2 /\ text[2] = "nen"
                THEN SubSeq(text, 3, Len(text)) ELSE text
    IN  [month |-> body[1], day |-> body[3], hour |-> body[6],
         minute |-> IF Len(body) >= 9 THEN body[8] ELSE "0"]

\* the civil date and time the resolver builds from the phrases, before it
\* converts them to the stored instant: the local fields of targetDate
ResolvedCivil ==
    LET jstNow == input.ref + OffsetDiff(serverTz) * 60
        hm     == ResolveTime(input.timeStr)
    IN  The({Fields(targetDate, serverTz) : targetDate \in
              {setHours(ResolveDate(input.dateStr, jstNow, serverTz),
                        hm.h, hm.mi, serverTz)}})

\* C17: for every successfully resolved instant the display shows the civil
\* month, day, hour and minute that the resolver computed from the phrases:
\* storing as UTC and showing at UTC+9 is the identity on them.  (An Invalid
\* Date is no instant; C1 is about it.)
C17_DisplayShowsResolvedCivilTime ==
    (Called /\ parsed.success /\ parsed.date # NaN /\ reply # <<>>) =>
        The({/\ Shown(reply).month = ToString(c.mo + 1)
             /\ Shown(reply).day = ToString(c.d)
             /\ Shown(reply).hour = ToString(c.h)
             /\ Shown(reply).minute = ToString(c.mi)
             : c \in {ResolvedCivil}})

\* a time with minutes resolved on a server at UTC for another year, shown
C17_Witness ==
    /\ Called /\ parsed.success /\ parsed.date # NaN /\ reply # <<>>
    /\ serverTz = 0
    /\ input.timeStr = TimePhrase("h_ji_m_fun", 15, 30)
    /\ input.dateStr.k = "y_nen_m_gatsu_d_nichi"
    /\ Len(reply) = 11

-----------------------------------------------------------------------------
(* Properties of the number parser, checked under SpecNumbers.             *)

\* the items a string lists: its maximal runs of characters other than
\* separators, in order (cur is the run being read)
RECURSIVE Items(_, _, _)
Items(text, i, cur) ==
    IF i > Len(text) THEN (IF cur = <<>> THEN <<>> ELSE <<cur>>)
    ELSE IF text[i] \in Separators
    THEN (IF cur = <<>> THEN <<>> ELSE <<cur>>) \o Items(text, i + 1, <<>>)
    ELSE Items(text, i + 1, cur \o <<text[i]>>)

\* runs of separators
SeparatorRuns ==
    {<<" ">>, <<",">>, <<".">>, <<"nl">>, <<",", " ">>, <<".", "nl">>}

\* the items written one after the other with the run sep between them
RECURSIVE Listing(_, _)
Listing(items, sep) ==
    IF items = <<>> THEN <<>>
    ELSE IF Len(items) = 1 THEN items[1]
    ELSE items[1] \o sep \o Listing(Tail(items), sep)

\* other ways to list the items of a string: another separator, a separator
\* at either end, the first item once more at the end
Relistings(text) ==
    LET items == Items(text, 1, <<>>)
        again == IF items = <<>> THEN items ELSE items \o <<items[1]>>
    IN  UNION {{Listing(items, sep), sep \o Listing(items, sep) \o sep,
                Listing(again, sep)} : sep \in SeparatorRuns}

\* C18: for every input string parseNumbers returns a strictly ascending
\* list of distinct positive integers, and the strings that list the same
\* numbers with other separators (spaces, commas, periods, newlines or runs
\* of them), with or without duplicates, give the same result.
C18_NumbersAscendingWhateverTheSeparators ==
    parsed.called =>
        /\ \A i \in 1..Len(parsed.numbers) :
              /\ parsed.numbers[i] \in Nat
              /\ parsed.numbers[i] > 0
        /\ \A i \in 1..(Len(parsed.numbers) - 1) :
              parsed.numbers[i] < parsed.numbers[i + 1]
        /\ \A other \in Relistings(input) :
              parseNumbers(other) = parsed.numbers

\* "2,1 2": a duplicate, two kinds of separator, descending order
C18_Witness ==
    /\ parsed.called
    /\ input = <<"2", ",", "1", " ", "2">>
    /\ parsed.numbers = <<1, 2>>

-----------------------------------------------------------------------------
(* Properties of cadence extraction, checked under SpecCadence.            *)

HasDaily(text) == includes(text, KwMainichi) \/ includes(text, KwMainichiKana)
HasWeekly(text) == includes(text, KwMaishuu) \/ includes(text, KwMaishuuKana)
HasMonthly(text) ==
    includes(text, KwMaitsuki) \/ includes(text, KwMaitsukiKana)

\* C13: parseRepeatPattern returns daily whenever the text contains a daily
\* keyword, weekly when it contains a weekly and no daily keyword, monthly
\* when it contains a monthly and no daily or weekly keyword, and none when
\* it contains no keyword, whatever the order of the keywords.
C13_DailyOverWeeklyOverMonthly ==
    parsed # NotExtracted =>
        /\ HasDaily(input) => parsed.pattern = "daily"
        /\ (HasWeekly(input) /\ ~HasDaily(input)) => parsed.pattern = "weekly"
        /\ (HasMonthly(input) /\ ~HasWeekly(input) /\ ~HasDaily(input))
              => parsed.pattern = "monthly"
        /\ (~HasMonthly(input) /\ ~HasWeekly(input) /\ ~HasDaily(input))
              => parsed.pattern = "null"

\* 毎月まいしゅう毎日, the daily keyword last, gave daily
C13_Witness ==
    /\ input = KwMaitsuki \o KwMaishuuKana \o KwMainichi
    /\ parsed.pattern = "daily"

-----------------------------------------------------------------------------
(* Properties of the recurrence step, checked under SpecAdvance.           *)

Repeating == {"daily", "weekly", "monthly"}

TimeOfDay(t) == [h |-> Civil(t).h, mi |-> Civil(t).mi, s |-> Civil(t).s]

CivilDay(t) == (t + JstOffsetMin * 60) \div SecPerDay

\* C4: the recurrence step applied to a reminder whose cadence is none or any
\* value other than daily, weekly, monthly marks it completed and leaves
\* fireAt unchanged.
C4_NoneIsFinished ==
    (advanced.n > 0 /\ advanced.prev.repeat_pattern \notin Repeating) =>
        /\ reminders[1].status = "completed"
        /\ reminders[1].remind_at = advanced.prev.remind_at

C4_Witness ==
    /\ advanced.n = 1
    /\ advanced.prev.repeat_pattern = "null"
    /\ advanced.prev.status = "active"
    /\ reminders[1].status = "completed"

\* C6: for cadence daily the step sets fireAt to the previous fireAt plus 1
\* calendar day and for weekly plus 7 calendar days, hour, minute and second
\* unchanged, and sets the status back to active.
C6_DailyWeeklyExact ==
    (advanced.n > 0 /\ advanced.prev.repeat_pattern \in {"daily", "weekly"}) =>
        LET k == IF advanced.prev.repeat_pattern = "daily" THEN 1 ELSE 7
        IN  /\ CivilDay(reminders[1].remind_at)
                  = CivilDay(advanced.prev.remind_at) + k
            /\ TimeOfDay(reminders[1].remind_at)
                  = TimeOfDay(advanced.prev.remind_at)
            /\ reminders[1].status = "active"

C6_Witness ==
    /\ advanced.n = 1
    /\ advanced.prev.repeat_pattern = "weekly"
    /\ advanced.prev.status = "pending"
    /\ advanced.prev.remind_at = Jst(2024, 12, 31, 23, 59, 59)
    /\ reminders[1].remind_at = Jst(2025, 1, 7, 23, 59, 59)
    /\ reminders[1].status = "active"

\* C7: for cadence monthly, 12 steps from a start whose civil day-of-month
\* exists in every month land on the same civil day-of-month and time one
\* year later.
C7_TwelveMonthsIsOneYear ==
    (advanced.n = 12 /\ advanced.start.repeat_pattern = "monthly"
                     /\ Civil(advanced.start.remind_at).d <= 28) =>
        LET a == Civil(advanced.start.remind_at)
            b == Civil(reminders[1].remind_at)
        IN  b = [a EXCEPT !.y = @ + 1]

-----------------------------------------------------------------------------
(* Properties of the registration command, checked under SpecWebhook.      *)

\* the step handles a text event as a reminder command of 4 or more parts:
\* the room was not waiting for items and the text starts with the prefix
RegistrationStep ==
    /\ event'.type = "message"
    /\ roomStates[event'.roomId].waitingFor # "items"
    /\ Len(split(event'.text)) >= 4
    /\ split(event'.text)[1].k = "oshiete"

\* C2: when the resolver returns success = false for a registration command
\* (prefix command with 4 or more tokens), no reminder is created, no
\* existing reminder, list or room waiting state is changed, and the only
\* effect is the error reply.
C2_FailedRegistrationOnlyReplies ==
    [][(RegistrationStep /\ ~parsed'.success)
          => /\ reminders' = reminders
             /\ lists' = lists
             /\ roomStates' = roomStates
             /\ nextId' = nextId
             /\ pushed' = pushed
             /\ sweep' = sweep
             /\ reply' = Text(parsed'.error)]_vars

\* a registration for a past time has just been refused while a reminder and
\* a list are stored and a room is waiting for items
C2_Witness ==
    /\ event.type = "message"
    /\ Len(split(event.text)) >= 4
    /\ split(event.text)[1].k = "oshiete"
    /\ input.dateStr = split(event.text)[2]
    /\ ~parsed.success
    /\ reply = Text(PastError)
    /\ reminders # <<>>
    /\ lists # <<>>
    /\ \E r \in Rooms : roomStates[r].waitingFor = "items"

\* the text contains one of the six cadence keywords
HasKeyword(text) == HasDaily(text) \/ HasWeekly(text) \/ HasMonthly(text)

\* C16: for every reminder created by the registration command the stored
\* text, and the name derived from it, contains none of the six cadence
\* keywords, whatever the body was.
C16_StoredTextHasNoKeyword ==
    \A i \in DOMAIN reminders :
       /\ ~HasKeyword(reminders[i].message)
       /\ ~HasKeyword(reminders[i].reminder_name)

\* the request is not signed by the platform: its signature is not the
\* digest of its body under the channel secret
Forged(req) == req[2].key # ChannelSecret \/ req[2].of # req[1]

\* C15: a webhook request whose signature header is not the HMAC of the raw
\* body under the channel secret is answered with 401 and none of its events
\* is processed: no list, item, reminder or waiting state changes and no
\* reply is sent.
C15_ForgedRequestRejected ==
    [][\A req \in {r \in Requests : Forged(r)} :
          POST(req[1], req[2])
          => /\ event'.type = "rejected"
             /\ event'.status = 401
             /\ reminders' = reminders
             /\ lists' = lists
             /\ roomStates' = roomStates
             /\ nextId' = nextId
             /\ reply' = <<>>]_vars

\* a forged request has just been refused while a reminder and a list are
\* stored and a room is waiting for items
C15_Witness ==
    /\ event.type = "rejected"
    /\ reply = <<>>
    /\ reminders # <<>>
    /\ lists # <<>>
    /\ \E r \in Rooms : roomStates[r].waitingFor = "items"

-----------------------------------------------------------------------------
(* Properties of the delivery sweep, checked under SpecSweep.              *)

\* C3: once the sweep that delivered a due reminder of cadence none
\* (repeat_pattern null) is over, the reminder's status is completed, and
\* unless it was snoozed no later sweep delivers it again.
C3_OneOffCompletedBySweep ==
    \A i \in DOMAIN pushed :
       (pushed[i].reminder.repeat_pattern = "null"
          /\ sweep[pushed[i].sweeper].pc = "idle")
       => /\ \A k \in DOMAIN reminders :
                reminders[k].id = pushed[i].reminder.id
                => \/ reminders[k].status = "completed"
                   \/ reminders[k].remind_at # pushed[i].reminder.remind_at
          /\ \A j \in DOMAIN pushed :
                (j > i /\ pushed[j].reminder.id = pushed[i].reminder.id)
                => pushed[j].reminder.remind_at
                      # pushed[i].reminder.remind_at

\* C5: a sweep delivers a reminder only if its status was active and its
\* remind_at at or before the current instant when the sweep read the store
\* (never one that was pending, completed or in the future), and the sweep
\* selects every reminder that is due, in ascending remind_at order.
C5_SweepSelectsExactlyTheDue ==
    [][/\ \A s \in DOMAIN sweep :
             (event'.type = "cron_read" /\ event'.sweeper = s)
             => /\ sweep'[s].readAt = now
                /\ \A k \in DOMAIN sweep'[s].due :
                      /\ sweep'[s].due[k].status = "active"
                      /\ sweep'[s].due[k].remind_at <= now
                      /\ \E i \in DOMAIN reminders :
                            reminders[i] = sweep'[s].due[k]
                /\ \A i \in DOMAIN reminders :
                      (reminders[i].status = "active"
                         /\ reminders[i].remind_at <= now)
                      => \E k \in DOMAIN sweep'[s].due :
                            sweep'[s].due[k] = reminders[i]
                /\ \A a, b \in DOMAIN sweep'[s].due :
                      a < b => sweep'[s].due[a].remind_at
                                  <= sweep'[s].due[b].remind_at
       /\ pushed' # pushed
             => /\ Len(pushed') = Len(pushed) + 1
                /\ SubSeq(pushed', 1, Len(pushed)) = pushed
                /\ \E s \in DOMAIN sweep :
                      /\ sweep[s].pc = "loop"
                      /\ sweep[s].due # <<>>
                      /\ pushed'[Len(pushed')].sweeper = s
                      /\ pushed'[Len(pushed')].reminder = Head(sweep[s].due)
                      /\ pushed'[Len(pushed')].readAt = sweep[s].readAt
       /\ \A i \in DOMAIN pushed' :
             /\ pushed'[i].reminder.status = "active"
             /\ pushed'[i].reminder.remind_at <= pushed'[i].readAt]_vars

\* one sweep has delivered two reminders, the one stored later and firing
\* earlier first, and has left a completed one alone
C5_Witness ==
    /\ Len(pushed) >= 2
    /\ pushed[1].sweeper = pushed[2].sweeper
    /\ pushed[1].readAt = pushed[2].readAt
    /\ pushed[1].reminder.remind_at < pushed[2].reminder.remind_at
    /\ pushed[1].reminder.id > pushed[2].reminder.id
    /\ \E k \in DOMAIN reminders :
          /\ reminders[k].status = "completed"
          /\ reminders[k].remind_at <= pushed[1].readAt
          /\ \A i \in DOMAIN pushed : pushed[i].reminder.id # reminders[k].id

\* C29: within one sweep a failure on one reminder is contained: when the
\* sending for a due reminder throws, the reminder's remind_at and status
\* stay as they were, so it is due at the next sweep, and the sweep goes on
\* with the other due reminders, which are delivered and, if they repeat,
\* rescheduled.
C29_FailureIsContained ==
    [][\A s \in DOMAIN sweep :
          (event'.type = "cron_step" /\ event'.sweeper = s)
          => /\ sweep'[s].pc = "loop"
             /\ sweep'[s].due = Tail(sweep[s].due)
             /\ ~event'.sent
                => /\ pushed' = pushed
                   /\ \A i \in DOMAIN reminders :
                         /\ reminders'[i].remind_at = reminders[i].remind_at
                         /\ reminders'[i].status = reminders[i].status
             /\ event'.sent
                => /\ Len(pushed') = Len(pushed) + 1
                   /\ pushed'[Len(pushed')].reminder = Head(sweep[s].due)
                   /\ \A i \in DOMAIN reminders :
                         (reminders[i].id = Head(sweep[s].due).id
                          /\ reminders[i].repeat_pattern \in Repeating)
                         => /\ reminders'[i].status = "active"
                            /\ reminders'[i].remind_at =
                                  NextRemindAt(Head(sweep[s].due).remind_at,
                                               reminders[i].repeat_pattern,
                                               serverTz)]_vars

\* a sweep has delivered and rescheduled a daily reminder after its sending
\* for a reminder that was due before it had failed: that one was not sent
\* by this sweep and is still active and due
C29_Witness ==
    /\ event.type = "cron_step"
    /\ event.sent
    /\ pushed # <<>>
    /\ pushed[Len(pushed)].reminder.repeat_pattern = "daily"
    /\ \E i, k \in DOMAIN reminders :
          /\ reminders[k].id = pushed[Len(pushed)].reminder.id
          /\ reminders[k].remind_at > now
          /\ reminders[i].status = "active"
          /\ reminders[i].remind_at < pushed[Len(pushed)].reminder.remind_at
          /\ \A j \in DOMAIN pushed :
                pushed[j].reminder.id # reminders[i].id

-----------------------------------------------------------------------------
(* Properties of the cleanup sweep, checked under SpecCleanup.             *)

\* more than two months: more than 62 days
TwoMonths == 62 * SecPerDay
OneMonth == 31 * SecPerDay

StaleReminder(id) ==
    \E i \in DOMAIN reminders :
       /\ reminders[i].id = id
       /\ reminders[i].status # "completed"
       /\ reminders[i].cleanup_warning_at = NULL
       /\ reminders[i].updated_at < now - TwoMonths

StaleList(id) ==
    \E i \in DOMAIN lists :
       /\ lists[i].id = id
       /\ lists[i].cleanup_warning_at = NULL
       /\ lists[i].last_accessed_at < now - TwoMonths

WarnedOrGone(rows, id) ==
    \A i \in DOMAIN rows : rows[i].id = id => rows[i].cleanup_warning_at # NULL

ExpiredWarning(rows, id) ==
    \E i \in DOMAIN rows :
       /\ rows[i].id = id
       /\ rows[i].cleanup_warning_at # NULL
       /\ rows[i].cleanup_warning_at < now - OneMonth

Gone(rows, id) == \A i \in DOMAIN rows : rows[i].id # id

\* C14: under repeated cleanup sweeps every non-completed reminder not
\* updated, and every list not accessed, for more than two months is
\* eventually marked with a cleanup warning, and left untouched it is
\* eventually deleted once the warning is more than one month old.
C14_StaleDataAgedOut ==
    \A id \in 1..1 :
       /\ StaleReminder(id) ~> WarnedOrGone(reminders, id)
       /\ StaleList(id) ~> WarnedOrGone(lists, id)
       /\ ExpiredWarning(reminders, id) ~> Gone(reminders, id)
       /\ ExpiredWarning(lists, id) ~> Gone(lists, id)

-----------------------------------------------------------------------------
(* Properties of the lists, checked under SpecLists.                       *)

\* C19: createList creates a list only when the room has none of that name:
\* after any sequence of list commands there is at most one list per room
\* and name.
C19_OneListPerRoomAndName ==
    \A i, j \in DOMAIN lists :
       (lists[i].user_id = lists[j].user_id
        /\ lists[i].list_name = lists[j].list_name) => i = j

\* 追加 was asked for a list of room A that has items, so it was there
\* before, next to the list of the same name of room B
C19_Witness ==
    /\ event = [type |-> "message", roomId |-> "A", text |-> Tsuika(ListName)]
    /\ \E i, j \in DOMAIN lists :
          /\ lists[i].user_id = "A" /\ lists[i].items # <<>>
          /\ lists[j].user_id = "B"

\* item contains text, whatever the case of the letters
Contains(item, text) ==
    includes([i \in 1..Len(item) |-> lower(item[i])],
             [i \in 1..Len(text) |-> lower(text[i])])

\* the items of every list, list by list
ItemsOf(ls) == [i \in DOMAIN ls |-> ls[i].items]

\* the step is the handling of おぼえるくん listName itemName 削除 of room A
\* as a command
DeleteItemStep(listName, itemName) ==
    /\ roomStates["A"].waitingFor # "items"
    /\ event' = [type |-> "message", roomId |-> "A",
                 text |-> DeleteItem(listName, itemName)]

\* items without its k-th element
Without(items, k) ==
    [n \in 1..(Len(items) - 1) |-> IF n < k THEN items[n] ELSE items[n + 1]]

\* C20: deleteItemFromList removes at most one item per call: when items of
\* the named list of the room contain the given text, exactly the oldest of
\* them is removed and true is returned; when none does or the list does not
\* exist, nothing is removed and false is returned; the items of every other
\* list are unchanged.
C20_DeleteRemovesOldestMatchOnly ==
    [][\A listName \in {ListName, <<"N">>}, itemName \in ItemNames :
          DeleteItemStep(listName, itemName) =>
             LET li   == findList(lists, "A", listName)
                 hits == IF li = 0 THEN {}
                         ELSE {k \in DOMAIN lists[li].items :
                                  Contains(lists[li].items[k].item_text,
                                           itemName)}
             IN  IF hits = {}
                 THEN /\ ItemsOf(lists') = ItemsOf(lists)
                      /\ reply' = Text("item_not_found")
                 ELSE /\ ItemsOf(lists') =
                            [ItemsOf(lists) EXCEPT
                               ![li] = Without(@, CHOOSE k \in hits :
                                                    \A h \in hits : k <= h)]
                      /\ reply' = Text("item_deleted")]_vars

\* room r waits for the items of a list
IsWaiting(r) == roomStates[r].waitingFor = "items"

\* the rows of the lists that room r owns, in order
OwnedBy(ls, r) == SelectSeq(ls, LAMBDA l : l.user_id = r)

\* C22: the waiting state of a room lasts for exactly one text message: the
\* add command and the add_to_list postback set it; until the next text
\* message of the room it stays; that message is taken as items whatever it
\* says, and after it (items added, no item given, list not found, or the
\* store failed) the room waits no more; only the list named in the waiting
\* state gets items.
C22_WaitingLastsOneMessage ==
    [][\A r \in Rooms :
          /\ (IsWaiting(r) /\ event'.type = "message" /\ event'.roomId = r)
             => /\ roomStates'[r] = Undefined
                /\ reply' \in {Text("items_added"), Text("no_items"),
                               Text("list_not_found"), Text("error")}
                /\ Len(lists') = Len(lists)
                /\ \A i \in DOMAIN lists :
                      \/ lists'[i] = lists[i]
                      \/ /\ lists[i].user_id = r
                         /\ lists[i].list_name = roomStates[r].listName
                         /\ lists'[i].items # lists[i].items
          /\ (IsWaiting(r) /\ ~(event'.type = "message" /\ event'.roomId = r))
             => roomStates'[r].waitingFor = "items"
          /\ (~IsWaiting(r)
              /\ event' = [type |-> "message", roomId |-> r,
                           text |-> Tsuika(ListName)])
             => roomStates'[r] = Waiting(ListName)
          /\ (event'.type = "postback" /\ event'.roomId = r
              /\ event'.data.action = "add_to_list")
             => roomStates'[r] = Waiting(event'.data.list_name)]_vars

\* a room that was waiting has sent the add command itself and the command
\* was taken as an item; it waits no more
C22_Witness ==
    /\ event = [type |-> "message", roomId |-> "A", text |-> Tsuika(ListName)]
    /\ roomStates["A"] = Undefined
    /\ reply = Text("items_added")
    /\ \E i \in DOMAIN lists :
          /\ lists[i].user_id = "A"
          /\ \E k \in DOMAIN lists[i].items :
                lists[i].items[k].item_text = join(Tsuika(ListName)[1])

\* C23: lists and waiting state are isolated per room: an event (text
\* message or list postback) from one room never changes the waiting state
\* of the other room nor the lists the other room owns, their items
\* included, in any interleaving of the two rooms' events.
C23_RoomsAreIsolated ==
    [][\A r \in Rooms, other \in Rooms :
          (event'.roomId = r /\ other # r)
          => /\ roomStates'[other] = roomStates[other]
             /\ OwnedBy(lists', other) = OwnedBy(lists, other)]_vars

\* room B has deleted its list of the name that room A's list has, while
\* room A, which has items in its list, was waiting
C23_Witness ==
    /\ event.type \in {"message", "postback"}
    /\ event.roomId = "B"
    /\ reply = Text("list_deleted")
    /\ IsWaiting("A")
    /\ OwnedBy(lists, "B") = <<>>
    /\ \E i \in DOMAIN lists :
          /\ lists[i].user_id = "A"
          /\ lists[i].list_name = ListName
          /\ lists[i].items # <<>>

-----------------------------------------------------------------------------
(* Properties of the routes' guard, checked under SpecGuard.               *)

\* C21: a request to the delivery sweep or to the cleanup sweep whose
\* Authorization header is not exactly Bearer and the cron secret is
\* answered with 401; it delivers no reminder, sends no notification and
\* changes no reminder and no list.
C21_SweepsNeedTheCronSecret ==
    [][\A h \in AuthHeaders \ {Bearer(CronSecret)} :
          ((\E s \in DOMAIN sweep : CronGET(s, h)) \/ CleanupGET(h))
          => /\ event'.type = "rejected"
             /\ event'.status = 401
             /\ pushed' = pushed
             /\ sweep' = sweep
             /\ reminders' = reminders
             /\ lists' = lists]_vars

\* a request was refused while a reminder was due and a list was stale
C21_Witness ==
    /\ event.type = "rejected"
    /\ \E i \in DOMAIN reminders :
          reminders[i].status = "active" /\ reminders[i].remind_at <= now
    /\ \E i \in DOMAIN lists : lists[i].last_accessed_at = LongAgo
    /\ pushed = <<>>

-----------------------------------------------------------------------------
(* Properties of overlapping sweeps and of the reminder buttons, checked   *)
(* under SpecOverlap.                                                       *)

\* the step handles a snooze or complete postback
ReminderPostbackStep ==
    /\ event'.type = "postback"
    /\ event'.data.action \in {"snooze", "complete"}

\* C24: a snooze or complete postback changes a reminder only if the
\* reminder belongs to the room the postback came from: remind_at and status
\* of the reminders of every other room stay.
C24_PostbackStaysInItsRoom ==
    [][ReminderPostbackStep =>
          \A i \in DOMAIN reminders :
             reminders[i].room_id # event'.roomId
             => /\ reminders'[i].remind_at = reminders[i].remind_at
                /\ reminders'[i].status = reminders[i].status]_vars

\* C25: when two delivery sweeps overlap, each occurrence of a due reminder
\* is delivered by at most one of them: two sweeps never send the same
\* reminder for the same remind_at.
C25_OneDeliveryPerOccurrence ==
    \A i, j \in DOMAIN pushed :
       (pushed[i].sweeper # pushed[j].sweeper
        /\ pushed[i].reminder.id = pushed[j].reminder.id)
       => pushed[i].reminder.remind_at # pushed[j].reminder.remind_at

\* the step is the snooze postback for reminder id
SnoozeStep(id) ==
    /\ event'.type = "postback"
    /\ event'.data.action = "snooze"
    /\ event'.data.reminder_id = id

\* C26: a reminder the user has completed stays completed and is not
\* delivered again unless the user snoozes it afterwards; a sweep that read
\* it as due before the completion neither sends it nor sets it back to
\* active.
C26_CompletedStaysCompleted ==
    [][\A i \in DOMAIN reminders :
          (reminders[i].status = "completed" /\ ~SnoozeStep(reminders[i].id))
          => /\ reminders'[i].status = "completed"
             /\ \/ pushed' = pushed
                \/ pushed'[Len(pushed')].reminder.id # reminders[i].id]_vars

\* C27: after a sweep has delivered and rescheduled a repeating reminder,
\* the reminder's new remind_at is strictly after the time of the sweep,
\* also when the reminder was overdue by more than one period.
C27_RescheduledIntoTheFuture ==
    [][(event'.type = "cron_step" /\ event'.sent)
       => \A i \in DOMAIN reminders' :
             (reminders'[i].id = event'.reminder_id
              /\ reminders'[i].repeat_pattern \in Repeating
              /\ reminders'[i].status = "active")
             => reminders'[i].remind_at > now]_vars

\* the stores of this specification hold reminders created for the time of
\* day of SysStart
CreatedTimeOfDay == TimeOfDay(SysStart)

\* C28: snoozing a repeating reminder only adds one delivery: after any
\* deliveries, snoozes and reschedules, the occurrence a sweep schedules
\* next has the civil time of day the reminder was created with.
C28_SnoozeKeepsTheTimeOfDay ==
    [][(event'.type = "cron_step" /\ event'.sent)
       => \A i \in DOMAIN reminders' :
             (reminders'[i].id = event'.reminder_id
              /\ reminders'[i].repeat_pattern \in Repeating)
             => TimeOfDay(reminders'[i].remind_at) = CreatedTimeOfDay]_vars

====
